---- MODULE Spec2Model ----
(***************************************************************************)
(* ROG metadata API: the reveal workflow over the Prisma store, the        *)
(* Transfer event handlers that maintain nft_info, the metadata resolver   *)
(* and the seeded affine permutation shared with the PhaseThreeAvatar      *)
(* contract.                                                               *)
(*                                                                         *)
(* The store variables hold the COMMITTED rows of the PostgreSQL tables.   *)
(* prisma.$transaction(async tx => ...) is called without an isolation     *)
(* level, so it runs at PostgreSQL's default READ COMMITTED: every         *)
(* statement reads the committed rows, an UPDATE takes the row's lock and  *)
(* waits for a concurrent holder, and the writes become visible at COMMIT. *)
(***************************************************************************)
EXTENDS Integers, Sequences, FiniteSets, TLC

\* ---------------------------------------------------------------- bounds
MaxToken == 2          \* token ids 1..MaxToken
MaxOrigin == 2         \* origin ids 1..MaxOrigin
MaxReq == 2            \* reveal requests, each answered once
MaxChainEvents == 2    \* Transfer events the contract emits (one per block)
MaxSeed == 11          \* seeds 0..MaxSeed
MaxSupply == 7         \* moduli 0..MaxSupply
MaxBlock == 3          \* block numbers 1..MaxBlock
MaxPasses == 3         \* mapping-generation passes counted
MaxBatch == 3          \* entries in one holders array
MaxClock == 4          \* clock values 0..MaxClock
MaxTimers == 2         \* setInterval timers of the NFT sync monitor alive
MaxStarts == 2         \* startNftSyncMonitoring calls awaiting at once
\* adminRateLimit's window and limit, scaled: the code's window is 15
\* minutes of milliseconds and its limit 100 requests
windowMs == 2
maxRequests == 2

Tokens == 1..MaxToken
\* soulbound token ids a caller may pass to mintBySoulboundHolder
SoulboundIds == 0..MaxToken
Origins == 1..MaxOrigin
Reqs == 1..MaxReq

\* box_type_id: 0 = gold, 1 = red, 2 = blue, 3 = public; the model uses one
\* allow-list tier and the public tier
BoxTypes == {1, 3}
Phase2BoxTypes == {1}

ZERO_ADDRESS == "0x00"
\* checksummed account addresses, and the same accounts in lower case
Addrs == {"0xAa", "0xBb"}
LowerAddrs == {"0xaa", "0xbb"}

\* ethers getAddress: the checksummed form of an address string
getAddress(a) ==
  CASE a = "0xaa" -> "0xAa"
    [] a = "0xbb" -> "0xBb"
    [] OTHER -> a

\* String.prototype.toLowerCase on an address string
toLowerCase(a) ==
  CASE a = "0xAa" -> "0xaa"
    [] a = "0xBb" -> "0xbb"
    [] OTHER -> a

\* opaque JSON metadata documents
OriginDocs == {"art"}
BlindDocs == {"blind"}

VARIABLES
  nftInfo,               \* nft_info rows: tokenId -> row
  originMetadataInfo,    \* origin_metadata_info rows: originId -> row
  unrevealMetadataInfo,  \* unreveal_metadata_info rows: boxTypeId -> metadata
  phase2Holders,         \* phase2_holders rows (a set of rows)
  lastProcessedBlock,    \* sync_status.lastProcessedBlock of transfer_events
  chainOwner,            \* contract: tokenId -> ownerOf, minted tokens only
  chainLog,              \* contract: the Transfer events emitted so far
  soulboundToAvatar,     \* contract: soulbound token id -> avatar token id
  avatarToSoulbound,     \* contract: avatar token id -> soulbound token id
  req,                   \* POST /metadata/reveal/:tokenId requests
  lastMetadata,          \* the last answer of GET /metadata/:tokenId
  perm,                  \* the permutation engine's last evaluation
  latestBlock,           \* contract chain: the latest block number
  handled,               \* the Transfer events a handler has completed for
  sync,                  \* the syncHistoricalEvents run in progress, if any
  revealed,              \* contract: revealed
  seedOnChain,           \* contract: randomSeedMetadata
  randomSeedInfo,        \* random_seed_info rows
  scheduler,             \* SchedulerService: isRunning, intervalId, start pc
  mappingPasses,         \* generateAllMappings passes run so far
  phase2Sig,             \* the last Phase2 signature issued and its checks
  sigResponse,           \* the last answer of POST /api/phase2/.../signature
  batchResponse,         \* the last POST /admin/batch-phase2-holders: its
                         \* holders array and its answer
  nftMonitor,            \* the NFT sync monitor: SchedulerService,
                         \* NftSyncService and BlockchainService flags
  adminRequestCounts,    \* adminRateLimit: client IP -> { count, resetTime }
  clock,                 \* Date.now()
  adminResponse,         \* the last answer to a request to an admin route
  passedAt               \* client IP -> time -> requests that passed the
                         \* rate limiter at that time, kept for the last
                         \* windowMs of time

vars == <<nftInfo, originMetadataInfo, unrevealMetadataInfo, phase2Holders,
          lastProcessedBlock, chainOwner, chainLog, soulboundToAvatar,
          avatarToSoulbound, req, lastMetadata, perm,
          latestBlock, handled, sync, revealed, seedOnChain,
          randomSeedInfo, scheduler, mappingPasses, phase2Sig,
          sigResponse, batchResponse, nftMonitor, adminRequestCounts,
          clock, adminResponse, passedAt>>

storeVars == <<nftInfo, originMetadataInfo, unrevealMetadataInfo,
               phase2Holders, lastProcessedBlock>>
soulboundVars == <<soulboundToAvatar, avatarToSoulbound>>
chainVars == <<chainOwner, chainLog, latestBlock, soulboundVars>>
syncVars == <<handled, sync>>
seedVars == <<revealed, seedOnChain, randomSeedInfo, scheduler,
              mappingPasses>>
monitorVars == <<nftMonitor>>
gateVars == <<adminRequestCounts, clock, adminResponse, passedAt>>
adminVars == <<phase2Sig, sigResponse, batchResponse, monitorVars, gateVars>>

\* ------------------------------------------------------ reveal messages
NoMessage == [tag |-> "", tokenId |-> 0, address |-> ""]

\* `SLASH206: Reveal token ${tokenId} by ${getAddress(ownerAddress)}`
generateRevealMessage(tokenId, ownerAddress) ==
  [tag |-> "SLASH206: Reveal token", tokenId |-> tokenId,
   address |-> getAddress(ownerAddress)]

\* what a client may submit for token t: the canonical message for either
\* account, the same text with the address in lower case, or nothing
ClientMessages(t) ==
  {generateRevealMessage(t, a) : a \in Addrs}
    \cup {[tag |-> "SLASH206: Reveal token", tokenId |-> t, address |-> "0xaa"],
          NoMessage}

\* a personal-message signature: who signed, and which message was signed
NoSignature == [signer |-> "", msg |-> NoMessage]
MalformedSignature == [signer |-> "0x", msg |-> NoMessage]
Sign(signer, msg) == [signer |-> signer, msg |-> msg]

\* ethers verifyMessage: the signer when the signature is over that message,
\* some unrelated account when it is over another one; malformed bytes throw
verifyMessage(message, signature) ==
  IF signature = MalformedSignature THEN "throw"
  ELSE IF signature.msg = message THEN signature.signer
  ELSE "0xcc"

\* verifySignature of the route: the checksummed recovered address
verifySignature(message, signature) ==
  LET recoveredAddress == verifyMessage(message, signature)
  IN IF recoveredAddress = "throw" THEN "throw"
     ELSE getAddress(recoveredAddress)

\* the signatures a client may submit with a message: either account's
\* signature over it, bytes that are no signature, or nothing
ClientSignatures(message) ==
  {Sign(toLowerCase(a), message) : a \in Addrs}
    \cup {MalformedSignature, NoSignature}

\* ------------------------------------------------------- request records
NoResponse ==
  [status |-> 0, error |-> "", tokenId |-> 0, metadata |-> ""]

IdleReq ==
  [pc |-> "idle", tokenId |-> 0, message |-> NoMessage,
   signature |-> NoSignature, boxTypeId |-> 0, availableOrigins |-> {},
   originId |-> 0, res |-> NoResponse]

ErrorResponse(status, error) ==
  [status |-> status, error |-> error, tokenId |-> 0, metadata |-> ""]

\* a request that has been answered
DoneReq(res) == [IdleReq EXCEPT !.pc = "done", !.res = res]

\* res.status(status).json({ success: false, error }): the handler returns
Reject(r, status, error) ==
  req' = [req EXCEPT ![r] = DoneReq(ErrorResponse(status, error))]

\* the transaction of request q holds the row lock of its nft_info row from
\* tx.nftInfo.update until COMMIT, and of the chosen origin row from
\* tx.originMetadataInfo.update until COMMIT
NftRowLocked(t) ==
  \E q \in Reqs : req[q].tokenId = t /\ req[q].pc \in {"txUpdateOrigin", "txCommit"}
OriginRowLocked(o) ==
  \E q \in Reqs : req[q].originId = o /\ req[q].pc = "txCommit"

Min(a, b) == IF a < b THEN a ELSE b
TakeLimit == 500

\* getRevealedMetadata: the origin row's document, or a throw
getRevealedMetadata(originId) ==
  IF originId \in DOMAIN originMetadataInfo
    THEN originMetadataInfo[originId].metadata
    ELSE "throw"

\* =================================================== POST /metadata/reveal
\* RevealStart without the already-revealed pre-check
RevealStart_NoPreCheck(r, tokenId, message, signature) ==
  /\ req[r].pc = "idle"
  /\ IF tokenId < 1
       THEN Reject(r, 400, "Invalid token ID")
     ELSE IF message = NoMessage \/ signature = NoSignature
       THEN Reject(r, 400, "Missing message or signature")
     ELSE IF tokenId \notin DOMAIN nftInfo
       THEN Reject(r, 404, "Token not found")
     ELSE req' = [req EXCEPT ![r] =
                    [IdleReq EXCEPT !.pc = "getOwner", !.tokenId = tokenId,
                                    !.message = message,
                                    !.signature = signature]]
  /\ UNCHANGED <<storeVars, chainVars, lastMetadata, perm, syncVars, seedVars, adminVars>>

\* Validation, the nft_info lookup and the already-revealed pre-check, up to
\* the await of blockchainService.getOwnerOf.
RevealStart(r, tokenId, message, signature) ==
  /\ req[r].pc = "idle"
  /\ IF tokenId < 1
       THEN Reject(r, 400, "Invalid token ID")
     ELSE IF message = NoMessage \/ signature = NoSignature
       THEN Reject(r, 400, "Missing message or signature")
     ELSE IF tokenId \notin DOMAIN nftInfo
       THEN Reject(r, 404, "Token not found")
     ELSE IF nftInfo[tokenId].originId # 0
       THEN Reject(r, 400, "Token already revealed")
     ELSE req' = [req EXCEPT ![r] =
                    [IdleReq EXCEPT !.pc = "getOwner", !.tokenId = tokenId,
                                    !.message = message,
                                    !.signature = signature]]
  /\ UNCHANGED <<storeVars, chainVars, lastMetadata, perm, syncVars, seedVars, adminVars>>

\* RevealVerify without the comparison of the recovered address to the owner
RevealVerify_NoOwnerCompare(r, nftOwner) ==
  LET q == req[r]
      expectedMessage == generateRevealMessage(q.tokenId, nftOwner)
      recoveredAddress == verifySignature(q.message, q.signature)
  IN IF q.message # expectedMessage
       THEN Reject(r, 400, "Invalid message")
     ELSE IF recoveredAddress = "throw"
       THEN Reject(r, 401, "Invalid signature format")
     ELSE req' = [req EXCEPT ![r] =
                    [IdleReq EXCEPT !.pc = "txRead", !.tokenId = q.tokenId]]

\* The canonical-message and signature checks against the owner ownerOf
\* returned.
RevealVerify(r, nftOwner) ==
  LET q == req[r]
      expectedMessage == generateRevealMessage(q.tokenId, nftOwner)
      recoveredAddress == verifySignature(q.message, q.signature)
  IN IF q.message # expectedMessage
       THEN Reject(r, 400, "Invalid message")
     ELSE IF recoveredAddress = "throw"
       THEN Reject(r, 401, "Invalid signature format")
     ELSE IF recoveredAddress # nftOwner
       THEN Reject(r, 401, "Signature does not match token owner")
     ELSE req' = [req EXCEPT ![r] =
                    [IdleReq EXCEPT !.pc = "txRead", !.tokenId = q.tokenId]]

\* getOwnerOf answers (ownerOf reverts for a token the contract has not
\* minted, and the RPC call may fail), then the checks run without an await.
RevealGetOwner(r, rpcOk) ==
  /\ req[r].pc = "getOwner"
  /\ IF rpcOk /\ req[r].tokenId \in DOMAIN chainOwner
       THEN RevealVerify(r, getAddress(chainOwner[req[r].tokenId]))
       ELSE Reject(r, 500, "Failed to verify token ownership")
  /\ UNCHANGED <<storeVars, chainVars, lastMetadata, perm, syncVars, seedVars, adminVars>>

\* tx.nftInfo.findUnique and the in-transaction re-check; a throw inside the
\* transaction reaches the route's catch, which answers 500.
RevealTxRead(r) ==
  LET q == req[r]
  IN /\ q.pc = "txRead"
     /\ IF q.tokenId \notin DOMAIN nftInfo
          THEN Reject(r, 500, "Internal server error")
        ELSE IF nftInfo[q.tokenId].originId # 0
          THEN Reject(r, 500, "Internal server error")
        ELSE req' = [req EXCEPT ![r].pc = "txPool",
                                ![r].boxTypeId = nftInfo[q.tokenId].boxTypeId]
     /\ UNCHANGED <<storeVars, chainVars, lastMetadata, perm, syncVars, seedVars, adminVars>>

\* the unassigned rows without the boxTypeId filter
Unassigned_AnyBoxType(boxTypeId) ==
  {o \in DOMAIN originMetadataInfo : ~originMetadataInfo[o].isAssigned}

\* the rows tx.originMetadataInfo.findMany may return: any `take` of the
\* unassigned rows of the box type
Unassigned(boxTypeId) ==
  {o \in DOMAIN originMetadataInfo :
     /\ originMetadataInfo[o].boxTypeId = boxTypeId
     /\ ~originMetadataInfo[o].isAssigned}

FindManyUnassigned(boxTypeId) ==
  {batch \in SUBSET Unassigned(boxTypeId) :
     Cardinality(batch) = Min(Cardinality(Unassigned(boxTypeId)), TakeLimit)}

\* The pool query and the Math.random pick.
RevealTxPool(r) ==
  LET q == req[r]
  IN /\ q.pc = "txPool"
     /\ \E availableOrigins \in FindManyUnassigned(q.boxTypeId) :
          IF availableOrigins = {}
            THEN Reject(r, 500, "No available metadata for box type")
            ELSE \E availableOrigin \in availableOrigins :
                   req' = [req EXCEPT ![r].pc = "txUpdateNft",
                                      ![r].availableOrigins = availableOrigins,
                                      ![r].originId = availableOrigin]
     /\ UNCHANGED <<storeVars, chainVars, lastMetadata, perm, syncVars, seedVars, adminVars>>

\* tx.nftInfo.update: waits for the row lock, then holds it.
RevealTxUpdateNft(r) ==
  /\ req[r].pc = "txUpdateNft"
  /\ ~NftRowLocked(req[r].tokenId)
  /\ req' = [req EXCEPT ![r].pc = "txUpdateOrigin"]
  /\ UNCHANGED <<storeVars, chainVars, lastMetadata, perm, syncVars, seedVars, adminVars>>

\* tx.originMetadataInfo.update: waits for the row lock, then holds it.
RevealTxUpdateOrigin(r) ==
  /\ req[r].pc = "txUpdateOrigin"
  /\ ~OriginRowLocked(req[r].originId)
  /\ req' = [req EXCEPT ![r].pc = "txCommit"]
  /\ UNCHANGED <<storeVars, chainVars, lastMetadata, perm, syncVars, seedVars, adminVars>>

\* COMMIT: both updates become visible and the locks are released.
RevealTxCommit(r) ==
  LET q == req[r]
  IN /\ q.pc = "txCommit"
     /\ nftInfo' = [nftInfo EXCEPT ![q.tokenId].originId = q.originId]
     /\ originMetadataInfo' =
          [originMetadataInfo EXCEPT ![q.originId].isAssigned = TRUE]
     /\ req' = [req EXCEPT ![r].pc = "respond"]
     /\ UNCHANGED <<unrevealMetadataInfo, phase2Holders, lastProcessedBlock,
                    chainVars, lastMetadata, perm, syncVars, seedVars, adminVars>>

\* metadataService.getRevealedMetadata(result.originId) and the 200 answer.
RevealRespond(r) ==
  LET q == req[r]
  IN /\ q.pc = "respond"
     /\ IF getRevealedMetadata(q.originId) = "throw"
          THEN Reject(r, 500, "Internal server error")
          ELSE req' = [req EXCEPT ![r] =
                 DoneReq([status |-> 200, error |-> "", tokenId |-> q.tokenId,
                          metadata |-> getRevealedMetadata(q.originId)])]
     /\ UNCHANGED <<storeVars, chainVars, lastMetadata, perm, syncVars, seedVars, adminVars>>

\* ================================================= contract (environment)
\* provider.getBlockNumber(): the chain's latest block
LatestBlockNumber == latestBlock

\* seconds since the deployment block, one block per second
BlockTimestamp(blockNumber) == blockNumber
\* MINT_CONFIG.publicStartTime on the same scale
PublicStartTime == 2

\* ERC721A _safeMint: token ids are consecutive from _startTokenId() = 1
ChainMint(to) ==
  LET tokenId == Cardinality(DOMAIN chainOwner) + 1
  IN /\ tokenId \in Tokens
     /\ Cardinality(chainLog) < MaxChainEvents
     /\ latestBlock < MaxBlock
     /\ latestBlock' = latestBlock + 1
     /\ chainOwner' = chainOwner @@ (tokenId :> to)
     /\ chainLog' = chainLog \cup
          {[from |-> ZERO_ADDRESS, to |-> to, tokenId |-> tokenId,
            blockNumber |-> LatestBlockNumber + 1]}
     /\ UNCHANGED <<soulboundVars, storeVars, req, lastMetadata, perm,
                    syncVars, seedVars, adminVars>>

\* ERC721 transferFrom by the owner
ChainTransfer(tokenId, to) ==
  /\ tokenId \in DOMAIN chainOwner
  /\ chainOwner[tokenId] # to
  /\ Cardinality(chainLog) < MaxChainEvents
  /\ latestBlock < MaxBlock
  /\ latestBlock' = latestBlock + 1
  /\ chainOwner' = [chainOwner EXCEPT ![tokenId] = to]
  /\ chainLog' = chainLog \cup
       {[from |-> chainOwner[tokenId], to |-> to, tokenId |-> tokenId,
         blockNumber |-> LatestBlockNumber + 1]}
  /\ UNCHANGED <<soulboundVars, storeVars, req, lastMetadata, perm,
                 syncVars, seedVars, adminVars>>

\* ===================================================== chain reconciliation
\* the classification that ignores the allow-list
MintBoxTypes_IgnoreAllowList(to, blockNumber, timestampOk) == {3}

\* the box types handleMintEvent may settle on: blockNumber = 0 stands for
\* an absent block number, timestampOk for getBlockTimestamp answering;
\* phase2Holders.findFirst({ userAddress: to }) has no orderBy and returns
\* any matching row
MintBoxTypes(to, blockNumber, timestampOk) ==
  LET holders == {h \in phase2Holders : h.userAddress = to}
      byAllowList == IF holders = {} THEN {3}
                     ELSE {h.boxTypeId : h \in holders}
  IN IF blockNumber # 0 /\ timestampOk
          /\ BlockTimestamp(blockNumber) > PublicStartTime
       THEN {3}
       ELSE byAllowList

\* the upsert that rewrites an existing row as a fresh one
UpsertNft_Recreate(rows, to, tokenId, boxTypeId) ==
  [t \in DOMAIN rows \cup {tokenId} |->
     IF t = tokenId
       THEN [metadataId |-> 0, userAddress |-> to, boxTypeId |-> boxTypeId,
             originId |-> 0]
       ELSE rows[t]]

\* the nft_info rows after handleMintEvent settled on boxTypeId: an existing
\* row gets the owner and the box type (nftInfo.update: userAddress,
\* boxTypeId), an absent one is created with originId 0 and no metadataId
UpsertNft(rows, to, tokenId, boxTypeId) ==
  IF tokenId \in DOMAIN rows
    THEN [rows EXCEPT ![tokenId].userAddress = to,
                      ![tokenId].boxTypeId = boxTypeId]
    ELSE rows @@ (tokenId :> [metadataId |-> 0, userAddress |-> to,
                              boxTypeId |-> boxTypeId, originId |-> 0])

\* handleMintEvent: classify, then update the existing row's owner and box
\* type when either differs, or create the row
handleMintEvent(to, tokenId, blockNumber, timestampOk) ==
  \E boxTypeId \in MintBoxTypes(to, blockNumber, timestampOk) :
    /\ (tokenId \in DOMAIN nftInfo
          /\ (nftInfo[tokenId].userAddress # to
                \/ nftInfo[tokenId].boxTypeId # boxTypeId))
         => ~NftRowLocked(tokenId)
    /\ nftInfo' = UpsertNft(nftInfo, to, tokenId, boxTypeId)

\* the transfer handler that creates a row for a token it does not know
handleOwnershipTransfer_Upsert(from, to, tokenId) ==
  IF tokenId \in DOMAIN nftInfo
    THEN nftInfo' = IF nftInfo[tokenId].userAddress = from
                      THEN [nftInfo EXCEPT ![tokenId].userAddress = to]
                      ELSE nftInfo
    ELSE nftInfo' = nftInfo @@
           (tokenId :> [metadataId |-> 0, userAddress |-> to,
                        boxTypeId |-> 3, originId |-> 0])

\* handleOwnershipTransfer: updateMany where tokenId and userAddress = from
handleOwnershipTransfer(from, to, tokenId) ==
  IF tokenId \in DOMAIN nftInfo /\ nftInfo[tokenId].userAddress = from
    THEN /\ ~NftRowLocked(tokenId)
         /\ nftInfo' = [nftInfo EXCEPT ![tokenId].userAddress = to]
    ELSE UNCHANGED nftInfo

\* handleTransferEvent as the push subscription calls it (no block number):
\* the mint or transfer handler, then updateLastProcessedBlock(latest block)
HandleTransferEvent(e) ==
  /\ e \in chainLog
  /\ IF toLowerCase(e.from) = toLowerCase(ZERO_ADDRESS)
       THEN handleMintEvent(e.to, e.tokenId, 0, FALSE)
       ELSE handleOwnershipTransfer(e.from, e.to, e.tokenId)
  /\ lastProcessedBlock' = LatestBlockNumber
  /\ handled' = handled \cup {e}
  /\ UNCHANGED <<originMetadataInfo, unrevealMetadataInfo, phase2Holders,
                 chainVars, req, lastMetadata, perm, sync, seedVars, adminVars>>

\* ============================================================ admin routes
\* POST /admin/origin-metadata -> createOriginMetadata: a plain create, which
\* the primary key rejects for an existing originId (the route answers 500)
CreateOriginMetadata(originId, boxTypeId, metadata) ==
  /\ originId \notin DOMAIN originMetadataInfo
  /\ originMetadataInfo' = originMetadataInfo @@
       (originId :> [boxTypeId |-> boxTypeId, metadata |-> metadata,
                     isAssigned |-> FALSE])
  /\ UNCHANGED <<nftInfo, unrevealMetadataInfo, phase2Holders,
                 lastProcessedBlock, chainVars, req, lastMetadata, perm, syncVars, seedVars, adminVars>>

\* POST /admin/blind-box-metadata -> createBlindBoxMetadata: an upsert
CreateBlindBoxMetadata(boxTypeId, metadata) ==
  /\ unrevealMetadataInfo' =
       IF boxTypeId \in DOMAIN unrevealMetadataInfo
         THEN [unrevealMetadataInfo EXCEPT ![boxTypeId] = metadata]
         ELSE unrevealMetadataInfo @@ (boxTypeId :> metadata)
  /\ UNCHANGED <<nftInfo, originMetadataInfo, phase2Holders,
                 lastProcessedBlock, chainVars, req, lastMetadata, perm, syncVars, seedVars, adminVars>>

\* phase2_holders.signature before a signature is stored: no signer, no
\* digest
NoPhase2Signature == [signer |-> "", digest |-> 0]

\* POST /admin/phase2-holder -> addPhase2Holder: a create with id = tokenId
AddPhase2Holder(userAddress, boxTypeId, tokenId) ==
  /\ \A h \in phase2Holders : h.id # tokenId
  /\ phase2Holders' = phase2Holders \cup
       {[id |-> tokenId, userAddress |-> userAddress,
         boxTypeId |-> boxTypeId, signature |-> NoPhase2Signature]}
  /\ UNCHANGED <<nftInfo, originMetadataInfo, unrevealMetadataInfo,
                 lastProcessedBlock, chainVars, req, lastMetadata, perm, syncVars, seedVars, adminVars>>

\* ======================================================= metadata resolver
\* getBlindBoxMetadata: the box type's placeholder, or a throw
getBlindBoxMetadata(boxTypeId) ==
  IF boxTypeId \in DOMAIN unrevealMetadataInfo
    THEN unrevealMetadataInfo[boxTypeId]
    ELSE "throw"

\* getTokenMetadata: null for an unknown token; the originId branch is
\* commented out in the source, the blind-box document is returned always
getTokenMetadata(tokenId) ==
  IF tokenId \notin DOMAIN nftInfo
    THEN "null"
    ELSE getBlindBoxMetadata(nftInfo[tokenId].boxTypeId)

\* GET /metadata/:tokenId: 404 for null, 500 from the catch, else the JSON
GetTokenMetadata(tokenId) ==
  /\ lastMetadata' =
       LET metadata == getTokenMetadata(tokenId)
       IN [tokenId |-> tokenId, metadata |-> metadata,
           status |-> IF metadata = "null" THEN 404
                      ELSE IF metadata = "throw" THEN 500
                      ELSE 200]
  /\ UNCHANGED <<storeVars, chainVars, req, perm, syncVars, seedVars, adminVars>>

\* ====================================================== permutation engine
\* The 256-bit quantities are carried in narrower integers: BigInt, mulmod
\* and addmod never wrap, so the width does not enter the arithmetic.
HashModulus == 65521

\* the n low-order base-256 digits of x, most significant first; the
\* model's integers are below 2^31, so the digits beyond the fourth are 0
BigEndian(x, n) ==
  [i \in 1..n |-> IF n - i > 3 THEN 0 ELSE (x \div (256 ^ (n - i))) % 256]

\* (x * y) mod HashModulus for x, y below HashModulus, every intermediate
\* value below 2^31
MulMod(x, y) ==
  (((x * (y \div 256)) % HashModulus) * 256 + x * (y % 256)) % HashModulus

\* keccak256 stands as a fixed mixing function of the byte string: each
\* byte in turn takes h to (h * 31 + byte + 7) mod HashModulus, so that n
\* bytes take h to h * 31^n + SUM (bytes[i] + 7) * 31^(n - i). The sum is
\* taken by halves (tail[lo, hi] is that of bytes lo..hi), which keeps the
\* evaluation of long byte strings shallow.
Digest(bytes, h) ==
  LET n == Len(bytes)
      pow[k \in 0..n] ==
        IF k = 0 THEN 1
        ELSE IF k = 1 THEN 31 % HashModulus
        ELSE MulMod(pow[k \div 2], pow[k - k \div 2])
      tail[r \in (1..n) \X (1..n)] ==
        IF r[1] = r[2] THEN (bytes[r[1]] + 7) % HashModulus
        ELSE LET mid == (r[1] + r[2]) \div 2
             IN (MulMod(tail[<<r[1], mid>>], pow[r[2] - mid])
                   + tail[<<mid + 1, r[2]>>]) % HashModulus
  IN IF n = 0 THEN h
     ELSE (MulMod(h % HashModulus, pow[n]) + tail[<<1, n>>]) % HashModulus

keccak256(bytes) == Digest(bytes, 17)

\* UTF-8 of the one-letter tags
StringBytes(tag) == IF tag = "a" THEN <<97>> ELSE <<98>>

\* the seed packed as a uint64 (8 bytes) instead of a uint256 (32 bytes)
solidityPackedKeccak256_Uint64(seed, tag) ==
  keccak256(BigEndian(seed, 8) \o StringBytes(tag))

\* ethers.solidityPackedKeccak256(['uint256', 'string'], [seed, tag])
solidityPackedKeccak256(seed, tag) ==
  keccak256(BigEndian(seed, 32) \o StringBytes(tag))

\* keccak256(abi.encodePacked(randomSeedMetadata, tag)) in the contract
abiEncodePackedKeccak256(randomSeedMetadata, tag) ==
  keccak256(BigEndian(randomSeedMetadata, 32) \o StringBytes(tag))

RECURSIVE gcd(_, _)
\* while (y !== 0n) { t = y; y = x % t; x = t }
gcd(x, y) == IF y = 0 THEN x ELSE gcd(y, x % y)

\* the first candidate taken as it is, coprime or not
CoprimeFrom_NoSearch(a, modulus) == a

RECURSIVE CoprimeFrom(_, _)
\* while (gcd(a, modulus) !== 1n) { a = (a + 1n) % modulus; if (a === 0n) a = 1n }
CoprimeFrom(a, modulus) ==
  IF gcd(a, modulus) = 1 THEN a
  ELSE CoprimeFrom(IF (a + 1) % modulus = 0 THEN 1 ELSE (a + 1) % modulus,
                   modulus)

RECURSIVE SearchTurns(_, _)
\* the number of turns the while loop takes from a
SearchTurns(a, modulus) ==
  IF gcd(a, modulus) = 1 THEN 0
  ELSE 1 + SearchTurns(IF (a + 1) % modulus = 0 THEN 1 ELSE (a + 1) % modulus,
                       modulus)

NoParams == [a |-> 0, b |-> 0]

\* derivePermutationParams with b left as the whole digest
derivePermutationParams_WholeB(seed, modulus) ==
  IF modulus <= 1 THEN NoParams
  ELSE LET ha == solidityPackedKeccak256(seed, "a")
           hb == solidityPackedKeccak256(seed, "b")
           a0 == IF ha % modulus = 0 THEN 1 ELSE ha % modulus
       IN [a |-> CoprimeFrom(a0, modulus), b |-> hb]

\* derivePermutationParams of utils/crypto.ts; modulus <= 1 throws
derivePermutationParams(seed, modulus) ==
  IF modulus <= 1 THEN NoParams
  ELSE LET ha == solidityPackedKeccak256(seed, "a")
           hb == solidityPackedKeccak256(seed, "b")
           a0 == IF ha % modulus = 0 THEN 1 ELSE ha % modulus
       IN [a |-> CoprimeFrom(a0, modulus), b |-> hb % modulus]

\* calculateMetadataId that returns the zero-indexed metadata id
calculateMetadataId_ZeroIndexed(tokenId, randomSeed, maxSupply) ==
  LET N == maxSupply
      p == derivePermutationParams(randomSeed, N)
  IN IF N <= 1 THEN 0 ELSE (p.a * (tokenId - 1) + p.b) % N

\* calculateMetadataId of utils/crypto.ts; 0 stands for the throw
calculateMetadataId(tokenId, randomSeed, maxSupply) ==
  LET N == maxSupply
      p == derivePermutationParams(randomSeed, N)
      zeroIndexedToken == tokenId - 1
      zeroIndexedMeta == (p.a * zeroIndexedToken + p.b) % N
  IN IF N <= 1 THEN 0 ELSE zeroIndexedMeta + 1

RECURSIVE _gcd(_, _)
\* _gcd of the contract
_gcd(x, y) == IF y = 0 THEN x ELSE _gcd(y, x % y)

RECURSIVE _CoprimeFrom(_, _)
\* while (_gcd(a, _modulus) != 1) { a = (a + 1) % _modulus; if (a == 0) a = 1; }
_CoprimeFrom(a, modulus) ==
  IF _gcd(a, modulus) = 1 THEN a
  ELSE _CoprimeFrom(IF (a + 1) % modulus = 0 THEN 1 ELSE (a + 1) % modulus,
                    modulus)

\* _derivePermutationParams of the contract; require(_modulus > 1)
_derivePermutationParams(randomSeedMetadata, modulus) ==
  IF modulus <= 1 THEN NoParams
  ELSE LET ha == abiEncodePackedKeccak256(randomSeedMetadata, "a")
           hb == abiEncodePackedKeccak256(randomSeedMetadata, "b")
           a0 == IF ha % modulus = 0 THEN 1 ELSE ha % modulus
       IN [a |-> _CoprimeFrom(a0, modulus), b |-> hb % modulus]

\* the metadataId tokenURI puts into the URI; 0 stands for the revert
tokenURI(tokenId, randomSeedMetadata, maxSupply) ==
  LET N == maxSupply
      p == _derivePermutationParams(randomSeedMetadata, N)
      zeroIndexedToken == tokenId - 1
      zeroIndexedMeta == (((p.a * zeroIndexedToken) % N) + p.b) % N
  IN IF N <= 1 THEN 0 ELSE zeroIndexedMeta + 1

NoPerm == [seed |-> 0, maxSupply |-> 0, tokenId |-> 0, metadataId |-> 0,
           uriTokenId |-> 0, uriMetadataId |-> 0]

\* the backend evaluates calculateMetadataId for a token
CalculateMetadataId(tokenId) ==
  /\ perm' = [perm EXCEPT !.tokenId = tokenId,
                          !.metadataId = calculateMetadataId(tokenId, perm.seed,
                                                             perm.maxSupply)]
  /\ UNCHANGED <<storeVars, chainVars, req, lastMetadata, syncVars, seedVars, adminVars>>

\* the contract evaluates tokenURI for a token
TokenURI(tokenId) ==
  /\ perm' = [perm EXCEPT !.uriTokenId = tokenId,
                          !.uriMetadataId = tokenURI(tokenId, perm.seed,
                                                     perm.maxSupply)]
  /\ UNCHANGED <<storeVars, chainVars, req, lastMetadata, syncVars, seedVars, adminVars>>

\* ======================================================== catch-up sync
\* the contract chain advances by a block that carries no Transfer event
MineBlock ==
  /\ latestBlock < MaxBlock
  /\ latestBlock' = latestBlock + 1
  /\ UNCHANGED <<chainOwner, chainLog, soulboundVars, storeVars, req,
                 lastMetadata, perm,
                 syncVars, seedVars, adminVars>>

\* the locals of a syncHistoricalEvents call; total is events.length
NoSync ==
  [pc |-> "idle", events |-> <<>>, endBlock |-> 0, total |-> 0,
   processed |-> 0, mints |-> 0, transfers |-> 0, errors |-> 0,
   outcome |-> "none"]

RECURSIVE getTransferEvents(_, _)
\* contract.queryFilter(Transfer, fromBlock, toBlock): the events of the
\* blocks fromBlock..toBlock, both ends included, in block order
getTransferEvents(fromBlock, toBlock) ==
  IF fromBlock > toBlock THEN <<>>
  ELSE LET here == {e \in chainLog : e.blockNumber = fromBlock}
       IN (IF here = {} THEN <<>> ELSE <<CHOOSE e \in here : TRUE>>)
            \o getTransferEvents(fromBlock + 1, toBlock)

\* syncHistoricalEvents up to the loop: fromBlock || this.lastProcessedBlock,
\* toBlock || latest block (0 stands for an absent argument); a failing
\* event query is rethrown and nothing is written
syncHistoricalEvents(fromBlock, toBlock, rpcOk) ==
  LET startBlock == IF fromBlock # 0 THEN fromBlock ELSE lastProcessedBlock
      endBlock == IF toBlock # 0 THEN toBlock ELSE LatestBlockNumber
      events == getTransferEvents(startBlock, endBlock)
  IN /\ sync.pc = "idle"
     /\ sync' = IF rpcOk
                  THEN [NoSync EXCEPT !.pc = "loop", !.events = events,
                                      !.endBlock = endBlock,
                                      !.total = Len(events)]
                  ELSE [NoSync EXCEPT !.outcome = "threw"]
     /\ UNCHANGED <<storeVars, chainVars, req, lastMetadata, perm, handled,
                    seedVars, adminVars>>

\* getSyncStatus().blocksBehind
blocksBehind ==
  IF LatestBlockNumber > lastProcessedBlock
    THEN LatestBlockNumber - lastProcessedBlock
    ELSE 0

\* the periodic timer: performHistoricalNftSync calls syncHistoricalEvents()
\* when the service is behind the chain, and swallows what it throws
PerformHistoricalNftSync(rpcOk) ==
  /\ blocksBehind > 0
  /\ syncHistoricalEvents(0, 0, rpcOk)

\* POST /admin/nft-sync/force-sync -> forceNftSync(fromBlock, toBlock)
ForceNftSync(fromBlock, toBlock, rpcOk) ==
  syncHistoricalEvents(fromBlock, toBlock, rpcOk)

\* the counters after one turn of the loop: mints++ or transfers++ and
\* processed++ follow the awaited handler, errors++ is in the catch
CountEvent_CountBeforeHandler(s, isMint, ok) ==
  [s EXCEPT !.mints = IF isMint THEN @ + 1 ELSE @,
            !.transfers = IF ~isMint THEN @ + 1 ELSE @,
            !.processed = IF ok THEN @ + 1 ELSE @,
            !.errors = IF ok THEN @ ELSE @ + 1]

CountEvent(s, isMint, ok) ==
  [s EXCEPT !.mints = IF ok /\ isMint THEN @ + 1 ELSE @,
            !.transfers = IF ok /\ ~isMint THEN @ + 1 ELSE @,
            !.processed = IF ok THEN @ + 1 ELSE @,
            !.errors = IF ok THEN @ ELSE @ + 1]

\* one turn of the for loop of syncHistoricalEvents: the mint or transfer
\* handler on the next event; timestampOk is getBlockTimestamp answering,
\* storeOk the handler's store calls succeeding (a throw is caught and
\* counted, the loop goes on)
SyncHandleEvent(timestampOk, storeOk) ==
  /\ sync.pc = "loop"
  /\ sync.events # <<>>
  /\ LET event == Head(sync.events)
         isMint == toLowerCase(event.from) = toLowerCase(ZERO_ADDRESS)
     IN /\ IF storeOk
             THEN /\ IF isMint
                       THEN handleMintEvent(event.to, event.tokenId,
                                            event.blockNumber, timestampOk)
                       ELSE handleOwnershipTransfer(event.from, event.to,
                                                    event.tokenId)
                  /\ handled' = handled \cup {event}
             ELSE UNCHANGED <<nftInfo, handled>>
        /\ sync' = [CountEvent(sync, isMint, storeOk)
                      EXCEPT !.events = Tail(sync.events)]
  /\ UNCHANGED <<originMetadataInfo, unrevealMetadataInfo, phase2Holders,
                 lastProcessedBlock, chainVars, req, lastMetadata, perm,
                 seedVars, adminVars>>

\* after the loop: updateLastProcessedBlock(endBlock), then the counts are
\* returned
SyncFinish ==
  /\ sync.pc = "loop"
  /\ sync.events = <<>>
  /\ lastProcessedBlock' = sync.endBlock
  /\ sync' = [sync EXCEPT !.pc = "idle", !.outcome = "returned"]
  /\ UNCHANGED <<nftInfo, originMetadataInfo, unrevealMetadataInfo,
                 phase2Holders, chainVars, req, lastMetadata, perm, handled,
                 seedVars, adminVars>>

\* ========================================================== seed watcher
\* the seeds the owner may set: zero, which the backend reads as unrevealed,
\* and a non-zero one
Seeds == {0, 5}

\* contract.maxSupply()
getMaxSupply == MaxSupply

\* setRandomSeed without if (revealed) revert Revealed()
SetRandomSeed_NoRevert(seed) ==
  /\ seedOnChain' = seed
  /\ revealed' = TRUE
  /\ UNCHANGED <<storeVars, chainVars, req, lastMetadata, perm, syncVars,
                 randomSeedInfo, scheduler, mappingPasses, adminVars>>

\* PhaseThreeAvatar.setRandomSeed: once only
SetRandomSeed(seed) ==
  /\ ~revealed
  /\ seedOnChain' = seed
  /\ revealed' = TRUE
  /\ UNCHANGED <<storeVars, chainVars, req, lastMetadata, perm, syncVars,
                 randomSeedInfo, scheduler, mappingPasses, adminVars>>

\* the in-memory state of SchedulerService; pc follows the process: "down"
\* before startServer, "up" when it ran without starting the watcher,
\* "start" when startRandomSeedMonitoring is to be called, "setInterval"
\* between its first check and its setInterval, "idle" once it returned
NoScheduler == [isRunning |-> FALSE, intervalId |-> FALSE, pc |-> "down"]

\* stopRandomSeedMonitoring: clearInterval when a timer is set
stopRandomSeedMonitoring_KeepInterval(s) == [s EXCEPT !.isRunning = FALSE]

stopRandomSeedMonitoring(s) ==
  [s EXCEPT !.intervalId = FALSE, !.isRunning = FALSE]

\* what syncRandomSeedFromContract returns: 0 (null / 0n) unless the
\* contract is revealed with a non-zero seed
ContractSeed ==
  IF ~revealed \/ seedOnChain = 0 THEN 0 ELSE seedOnChain

\* the random_seed_info rows after syncRandomSeedFromContract: the seed's row
\* is created when absent
syncRandomSeedFromContract ==
  IF ContractSeed = 0 \/ (\E row \in randomSeedInfo : row.randomSeed = ContractSeed)
    THEN randomSeedInfo
    ELSE randomSeedInfo \cup
           {[randomSeed |-> ContractSeed, mappingsGenerated |-> FALSE]}

\* generateAllMappings that maps a row's previous metadataId, when it has
\* one, in place of its tokenId
generateAllMappings_Remap(rows, randomSeed, maxSupply) ==
  IF DOMAIN nftInfo = {}
    THEN /\ randomSeedInfo' = rows
         /\ UNCHANGED <<nftInfo, mappingPasses>>
    ELSE /\ \A t \in DOMAIN nftInfo : ~NftRowLocked(t)
         /\ nftInfo' =
              [t \in DOMAIN nftInfo |->
                 [nftInfo[t] EXCEPT
                    !.metadataId =
                      calculateMetadataId(
                        IF nftInfo[t].metadataId # 0
                          THEN nftInfo[t].metadataId ELSE t,
                        randomSeed, maxSupply)]]
         /\ randomSeedInfo' =
              {row \in rows : row.randomSeed # randomSeed}
                \cup {[randomSeed |-> randomSeed, mappingsGenerated |-> TRUE]}
         /\ mappingPasses' = Min(mappingPasses + 1, MaxPasses)

\* generateAllMappings over the rows left by the seed sync: nothing when
\* nft_info is empty; else metadataId of every row, then the seed's row is
\* upserted with mappingsGenerated = true
generateAllMappings(rows, randomSeed, maxSupply) ==
  IF DOMAIN nftInfo = {}
    THEN /\ randomSeedInfo' = rows
         /\ UNCHANGED <<nftInfo, mappingPasses>>
    ELSE /\ \A t \in DOMAIN nftInfo : ~NftRowLocked(t)
         /\ nftInfo' =
              [t \in DOMAIN nftInfo |->
                 [nftInfo[t] EXCEPT
                    !.metadataId = calculateMetadataId(t, randomSeed, maxSupply)]]
         /\ randomSeedInfo' =
              {row \in rows : row.randomSeed # randomSeed}
                \cup {[randomSeed |-> randomSeed, mappingsGenerated |-> TRUE]}
         /\ mappingPasses' = Min(mappingPasses + 1, MaxPasses)

\* the seed sync followed by generateAllMappings whatever the seed read
SyncSeedAndGenerate_Unguarded ==
  generateAllMappings(syncRandomSeedFromContract, ContractSeed, getMaxSupply)

\* the seed sync followed by if (randomSeed) generateAllMappings, as
\* forceCheck, POST /admin/sync-randomseed and startServer run it
SyncSeedAndGenerate ==
  IF ContractSeed # 0
    THEN generateAllMappings(syncRandomSeedFromContract, ContractSeed,
                             getMaxSupply)
    ELSE UNCHANGED <<nftInfo, randomSeedInfo, mappingPasses>>

\* checkRandomSeed: stop when a row with mappingsGenerated exists; else sync
\* the seed, generate and stop; a throw (rpcOk false) is logged and the
\* monitoring goes on; s is the scheduler state the check starts from
checkRandomSeed(s, rpcOk) ==
  IF \E row \in randomSeedInfo : row.mappingsGenerated
    THEN /\ scheduler' = stopRandomSeedMonitoring(s)
         /\ UNCHANGED <<nftInfo, randomSeedInfo, mappingPasses>>
    ELSE IF ~rpcOk
      THEN /\ scheduler' = s
           /\ UNCHANGED <<nftInfo, randomSeedInfo, mappingPasses>>
      ELSE IF ContractSeed # 0
        THEN /\ generateAllMappings(syncRandomSeedFromContract, ContractSeed,
                                    getMaxSupply)
             /\ scheduler' = stopRandomSeedMonitoring(s)
        ELSE /\ scheduler' = s
             /\ UNCHANGED <<nftInfo, randomSeedInfo, mappingPasses>>

SeedFrame ==
  UNCHANGED <<originMetadataInfo, unrevealMetadataInfo, phase2Holders,
              lastProcessedBlock, chainVars, req, lastMetadata, perm,
              syncVars, revealed, seedOnChain, adminVars>>

\* startServer: the startup seed sync; with a seed the mappings are
\* generated and the watcher is not started, without one or after a throw
\* startRandomSeedMonitoring is called
StartServer(rpcOk) ==
  /\ scheduler.pc = "down"
  /\ IF rpcOk /\ ContractSeed # 0
       THEN /\ SyncSeedAndGenerate
            /\ scheduler' = [scheduler EXCEPT !.pc = "up"]
       ELSE /\ scheduler' = [scheduler EXCEPT !.pc = "start"]
            /\ UNCHANGED <<nftInfo, randomSeedInfo, mappingPasses>>
  /\ SeedFrame

\* startRandomSeedMonitoring up to its setInterval: isRunning = true and the
\* immediate check
StartRandomSeedMonitoring(rpcOk) ==
  /\ scheduler.pc = "start"
  /\ IF scheduler.isRunning
       THEN /\ scheduler' = [scheduler EXCEPT !.pc = "idle"]
            /\ UNCHANGED <<nftInfo, randomSeedInfo, mappingPasses>>
       ELSE checkRandomSeed([scheduler EXCEPT !.isRunning = TRUE,
                                              !.pc = "setInterval"], rpcOk)
  /\ SeedFrame

\* this.intervalId = setInterval(...), after the immediate check returned
StartSetInterval ==
  /\ scheduler.pc = "setInterval"
  /\ scheduler' = [scheduler EXCEPT !.intervalId = TRUE, !.pc = "idle"]
  /\ UNCHANGED <<nftInfo, randomSeedInfo, mappingPasses>>
  /\ SeedFrame

\* the interval timer fires: checkRandomSeed
TimerTick(rpcOk) ==
  /\ scheduler.intervalId
  /\ checkRandomSeed(scheduler, rpcOk)
  /\ SeedFrame

\* POST /admin/scheduler/force-check -> forceCheck
ForceCheck(rpcOk) ==
  /\ scheduler.pc # "down"
  /\ IF rpcOk THEN SyncSeedAndGenerate
              ELSE UNCHANGED <<nftInfo, randomSeedInfo, mappingPasses>>
  /\ UNCHANGED scheduler
  /\ SeedFrame

\* POST /admin/sync-randomseed
AdminSyncRandomSeed(rpcOk) ==
  /\ scheduler.pc # "down"
  /\ IF rpcOk THEN SyncSeedAndGenerate
              ELSE UNCHANGED <<nftInfo, randomSeedInfo, mappingPasses>>
  /\ UNCHANGED scheduler
  /\ SeedFrame

\* POST /admin/scheduler/stop -> stopRandomSeedMonitoring, at any time
\* after the server came up, also while startRandomSeedMonitoring awaits
StopRandomSeedMonitoring ==
  /\ scheduler.pc # "down"
  /\ scheduler' = stopRandomSeedMonitoring(scheduler)
  /\ UNCHANGED <<nftInfo, randomSeedInfo, mappingPasses>>
  /\ SeedFrame

\* the process exits: the scheduler's memory and its timer are gone
StopServer ==
  /\ scheduler.pc \in {"idle", "up"}
  /\ scheduler' = NoScheduler
  /\ UNCHANGED <<nftInfo, randomSeedInfo, mappingPasses>>
  /\ SeedFrame

\* ===================================================== Phase2 signatures
\* SIGNER_PRIVATE_KEY values, and new ethers.Wallet(key).address
SignerKeys == {"k1", "k2"}
signerAddress(key) == IF key = "k1" THEN "0x51" ELSE "0x52"

\* the 160-bit number an address string spells, in either case
AccountNumber(address) ==
  CASE toLowerCase(address) = "0xaa" -> 170
    [] toLowerCase(address) = "0xbb" -> 187
    [] OTHER -> 0

\* solidityPacked 'address': 20 bytes
AddressBytes(address) == BigEndian(AccountNumber(address), 20)

\* ethers.getBytes(hash): the 32 bytes of a digest
getBytes(hash) == BigEndian(hash, 32)

\* "\x19Ethereum Signed Message:\n" and the length "32"
MessagePrefix ==
  <<25, 69, 116, 104, 101, 114, 101, 117, 109, 32, 83, 105, 103, 110, 101,
    100, 32, 77, 101, 115, 115, 97, 103, 101, 58, 10, 51, 50>>

\* ethers.hashMessage over 32 bytes
hashMessage(bytes) == keccak256(MessagePrefix \o bytes)

\* ECDSA.toEthSignedMessageHash(bytes32)
toEthSignedMessageHash(hash) == keccak256(MessagePrefix \o BigEndian(hash, 32))

\* an ECDSA signature made with a fresh nonce at each call, here the number
\* of allow-list rows at the time of signing
SignDigest_FreshNonce(key, digest) ==
  [signer |-> signerAddress(key), digest |-> digest,
   nonce |-> Cardinality(phase2Holders)]

\* an ECDSA signature: the signing key's address and the digest signed
SignDigest(key, digest) == [signer |-> signerAddress(key), digest |-> digest]

\* ethers.recoverAddress / ECDSA.recover: the signer when the signature is
\* over that digest, some unrelated account when it is over another one
recoverAddress(digest, signature) ==
  IF signature.digest = digest THEN signature.signer ELSE "0xcc"

\* generatePhase2Signature with the address packed as a 32-byte word
generatePhase2Signature_Padded(userAddress, tokenId, signerPrivateKey) ==
  LET messageHash == keccak256(BigEndian(AccountNumber(userAddress), 32)
                                 \o BigEndian(tokenId, 32))
      ethSignedMessageHash == hashMessage(getBytes(messageHash))
  IN SignDigest(signerPrivateKey, ethSignedMessageHash)

\* generatePhase2Signature of utils/crypto.ts
generatePhase2Signature(userAddress, tokenId, signerPrivateKey) ==
  LET messageHash == keccak256(AddressBytes(userAddress)
                                 \o BigEndian(tokenId, 32))
      ethSignedMessageHash == hashMessage(getBytes(messageHash))
  IN SignDigest(signerPrivateKey, ethSignedMessageHash)

\* verifyPhase2Signature of utils/crypto.ts
verifyPhase2Signature(userAddress, tokenId, signature, signerAddr) ==
  LET messageHash == keccak256(AddressBytes(userAddress)
                                 \o BigEndian(tokenId, 32))
      ethSignedMessageHash == hashMessage(getBytes(messageHash))
      recoveredAddress == recoverAddress(ethSignedMessageHash, signature)
  IN toLowerCase(recoveredAddress) = toLowerCase(signerAddr)

\* PhaseThreeAvatar.verify(_tokenId, _signer, _signature) called by msgSender
verify(msgSender, tokenId, signer, signature) ==
  LET hash == toEthSignedMessageHash(
                keccak256(AddressBytes(msgSender) \o BigEndian(tokenId, 32)))
  IN signer = recoverAddress(hash, signature)

\* ------------------------------------------- the contract's soulbound mint
\* ERC721A totalSupply(): the tokens minted (the contract burns none)
totalSupply == Cardinality(DOMAIN chainOwner)

\* the contract's signer, and the signatures a caller may present
ContractSigner == signerAddress("k1")
SoulboundSignatures ==
  {generatePhase2Signature(a, s, key) :
     a \in Addrs, s \in SoulboundIds, key \in SignerKeys}

\* _safeMint(to, quantity): ids consecutive from the next one, one Transfer
\* event each, in one block
SafeMint(to, quantity) ==
  LET minted == (totalSupply + 1)..(totalSupply + quantity)
  IN /\ Cardinality(chainLog) + quantity <= MaxChainEvents
     /\ latestBlock < MaxBlock
     /\ latestBlock' = latestBlock + 1
     /\ chainOwner' = [t \in DOMAIN chainOwner \cup minted |->
                         IF t \in minted THEN to ELSE chainOwner[t]]
     /\ chainLog' = chainLog \cup
          {[from |-> ZERO_ADDRESS, to |-> to, tokenId |-> t,
            blockNumber |-> LatestBlockNumber + 1] : t \in minted}

\* mintBySoulboundHolder that does not look at soulboundToAvatar
SoulboundTokenAlreadyMinted_Never(tokenId) == FALSE

\* if (soulboundToAvatar[_tokenId] != 0) revert SoulboundTokenAlreadyMinted()
SoulboundTokenAlreadyMinted(tokenId) == soulboundToAvatar[tokenId] # 0

\* PhaseThreeAvatar.mintBySoulboundHolder called by msgSender with the mint
\* price, inside the soulbound mint window; a call that reverts is no step
MintBySoulboundHolder(msgSender, tokenId, signature) ==
  LET currentId == totalSupply + 1
  IN /\ currentId \in Tokens
     /\ ~SoulboundTokenAlreadyMinted(tokenId)
     /\ verify(msgSender, tokenId, ContractSigner, signature)
     /\ soulboundToAvatar' = [soulboundToAvatar EXCEPT ![tokenId] = currentId]
     /\ avatarToSoulbound' = [avatarToSoulbound EXCEPT ![currentId] = tokenId]
     /\ SafeMint(msgSender, 1)
     /\ UNCHANGED <<storeVars, req, lastMetadata, perm, syncVars, seedVars,
                    adminVars>>

\* PhaseThreeAvatar.mintGiveawayTokens by the mint role
MintGiveawayTokens(to, quantity) ==
  /\ totalSupply + quantity <= MaxToken
  /\ SafeMint(to, quantity)
  /\ UNCHANGED <<soulboundVars, storeVars, req, lastMetadata, perm, syncVars,
                 seedVars, adminVars>>

\* the signature issued last, and the last check made of it
NoSig ==
  [address |-> "", tokenId |-> 0, key |-> "", signature |-> NoPhase2Signature,
   checked |-> FALSE, checkAddress |-> "", checkTokenId |-> 0,
   checkSigner |-> "", backend |-> FALSE, contract |-> FALSE]

SigFrame ==
  UNCHANGED <<storeVars, chainVars, req, lastMetadata, perm, syncVars,
              seedVars>>

\* a signature is issued for (address, tokenId) under a signer key
IssueSignature(address, tokenId, key) ==
  /\ phase2Sig' = [NoSig EXCEPT !.address = address, !.tokenId = tokenId,
                          !.key = key,
                          !.signature =
                            generatePhase2Signature(address, tokenId, key)]
  /\ SigFrame
  /\ UNCHANGED <<sigResponse, batchResponse, monitorVars, gateVars>>

\* the issued signature is checked by the backend and, with address as the
\* caller, by the contract
CheckSignature(address, tokenId, expectedSigner) ==
  /\ phase2Sig.key # ""
  /\ phase2Sig' = [phase2Sig EXCEPT
       !.checked = TRUE, !.checkAddress = address, !.checkTokenId = tokenId,
       !.checkSigner = expectedSigner,
       !.backend = verifyPhase2Signature(address, tokenId,
                                         phase2Sig.signature, expectedSigner),
       !.contract = verify(getAddress(address), tokenId, expectedSigner,
                           phase2Sig.signature)]
  /\ SigFrame
  /\ UNCHANGED <<sigResponse, batchResponse, monitorVars, gateVars>>

\* isPhase2Holder that looks at the address only
isPhase2Holder_AnyBoxType(userAddress, boxTypeId) ==
  \E h \in phase2Holders : h.userAddress = userAddress

\* MetadataService.isPhase2Holder: findFirst where { userAddress, boxTypeId }
isPhase2Holder(userAddress, boxTypeId) ==
  \E h \in phase2Holders :
    h.userAddress = userAddress /\ h.boxTypeId = boxTypeId

\* MetadataService.generateAndStorePhase2Signature: the rows after
\* updateMany where { userAddress, boxTypeId } data { signature }
StorePhase2Signature(userAddress, boxTypeId, signature) ==
  {IF h.userAddress = userAddress /\ h.boxTypeId = boxTypeId
     THEN [h EXCEPT !.signature = signature] ELSE h : h \in phase2Holders}

NoSigResponse == [status |-> 0, signature |-> NoPhase2Signature]

\* POST /api/phase2/:address/:boxTypeId/signature with body { tokenId };
\* tokenId 0 is a body without tokenId, signerPrivateKey "" an environment
\* without SIGNER_PRIVATE_KEY
RequestSignature(address, boxTypeId, tokenId, signerPrivateKey) ==
  LET status == IF tokenId = 0 THEN 400
                ELSE IF ~isPhase2Holder(address, boxTypeId) THEN 404
                ELSE IF signerPrivateKey = "" THEN 500
                ELSE 200
      signature == generatePhase2Signature(address, tokenId, signerPrivateKey)
  IN /\ sigResponse' =
          [status |-> status,
           signature |-> IF status = 200 THEN signature
                         ELSE NoPhase2Signature]
     /\ phase2Holders' =
          IF status = 200
            THEN StorePhase2Signature(address, boxTypeId, signature)
            ELSE phase2Holders
     /\ UNCHANGED <<nftInfo, originMetadataInfo, unrevealMetadataInfo,
                    lastProcessedBlock, chainVars, req, lastMetadata, perm,
                    syncVars, seedVars, phase2Sig, batchResponse,
                    monitorVars, gateVars>>

\* one entry of the holders array; userAddress "" is an entry without one
BatchEntries ==
  [userAddress : {"0xAa", ""}, boxTypeId : {1}, tokenId : Tokens]
Batches ==
  {<<>>} \cup UNION {[1..n -> BatchEntries] : n \in 1..MaxBatch}

WellFormed(holder) == holder.userAddress # ""

\* prisma.phase2Holders.create rejects a row whose id is taken
CreateRejects(rows, holder) == \E h \in rows : h.id = holder.tokenId

\* the loop of the batch route: an entry without a field is passed over,
\* addPhase2Holder is awaited for the others, and its throw leaves the loop
BatchLoop(rows, holders) ==
  LET run[i \in 0..Len(holders)] ==
        IF i = 0 THEN [rows |-> rows, added |-> 0, thrown |-> FALSE]
        ELSE LET before == run[i - 1]
                 holder == holders[i]
             IN IF before.thrown \/ ~WellFormed(holder) THEN before
                ELSE IF CreateRejects(before.rows, holder)
                  THEN [before EXCEPT !.thrown = TRUE]
                  ELSE [before EXCEPT
                          !.rows = @ \cup
                            {[id |-> holder.tokenId,
                              userAddress |-> holder.userAddress,
                              boxTypeId |-> holder.boxTypeId,
                              signature |-> NoPhase2Signature]},
                          !.added = @ + 1]
  IN run[Len(holders)]

NoBatchResponse == [holders |-> <<>>, status |-> 0, added |-> 0]

\* POST /admin/batch-phase2-holders with body { holders }
BatchPhase2Holders(holders) ==
  LET done == BatchLoop(phase2Holders, holders)
  IN /\ phase2Holders' = done.rows
     /\ batchResponse' =
          IF done.thrown
            THEN [holders |-> holders, status |-> 500, added |-> 0]
            ELSE [holders |-> holders, status |-> 200, added |-> done.added]
     /\ UNCHANGED <<nftInfo, originMetadataInfo, unrevealMetadataInfo,
                    lastProcessedBlock, chainVars, req, lastMetadata, perm,
                    syncVars, seedVars, phase2Sig, sigResponse,
                    monitorVars, gateVars>>

\* ======================================================= NFT sync monitor
\* nftSyncIntervalId is whether the handle is set; timers counts the
\* setInterval timers alive, listeners the callbacks attached to the
\* contract's Transfer event, starting the startNftSyncMonitoring calls
\* that await startTransferMonitoring
NoNftMonitor ==
  [isNftSyncRunning |-> FALSE, nftSyncIntervalId |-> FALSE,
   isListening |-> FALSE, transferListenerActive |-> FALSE,
   timers |-> 0, listeners |-> 0, starting |-> 0]

MonitorFrame ==
  UNCHANGED <<storeVars, chainVars, req, lastMetadata, perm, syncVars,
              seedVars, phase2Sig, sigResponse, batchResponse, gateVars>>

\* NftSyncService.startTransferMonitoring with the sync_status row present:
\* isListening, then BlockchainService.startTransferEventListener, which
\* attaches contract.on('Transfer') unless transferListenerActive
startTransferEventListener(m) ==
  IF m.transferListenerActive THEN m
  ELSE [m EXCEPT !.transferListenerActive = TRUE, !.listeners = 0 + 1]

startTransferMonitoring(m) ==
  IF m.isListening THEN m
  ELSE startTransferEventListener([m EXCEPT !.isListening = TRUE])

\* NftSyncService.stopTransferMonitoring
stopTransferMonitoring(m) == [m EXCEPT !.isListening = FALSE]

\* SchedulerService.startNftSyncMonitoring
\* this.nftSyncIntervalId = setInterval(...): one more timer, the handle
\* now that of the new one
SetNftSyncInterval(m) ==
  [m EXCEPT !.nftSyncIntervalId = TRUE, !.timers = Min(@ + 1, MaxTimers)]

\* SchedulerService.startNftSyncMonitoring run without a stop or another
\* start in between
startNftSyncMonitoring(m) ==
  IF m.isNftSyncRunning THEN m
  ELSE SetNftSyncInterval(
         startTransferMonitoring([m EXCEPT !.isNftSyncRunning = TRUE]))

\* SchedulerService.stopNftSyncMonitoring: clearInterval of the timer the
\* handle refers to, when it is set
stopNftSyncMonitoring(m) ==
  [stopTransferMonitoring(
     IF m.nftSyncIntervalId
       THEN [m EXCEPT !.nftSyncIntervalId = FALSE, !.timers = @ - 1]
       ELSE m)
     EXCEPT !.isNftSyncRunning = FALSE]

\* startNftSyncMonitoring at server start or by the admin route's handler
StartNftSyncMonitoring ==
  /\ nftMonitor' = startNftSyncMonitoring(nftMonitor)
  /\ MonitorFrame

\* startNftSyncMonitoring up to the await inside startTransferMonitoring
\* (initializeLastProcessedBlock): a call made while isNftSyncRunning
\* returns at once
BeginStartNftSyncMonitoring ==
  /\ nftMonitor.starting < MaxStarts
  /\ nftMonitor' =
       IF nftMonitor.isNftSyncRunning THEN nftMonitor
       ELSE IF nftMonitor.isListening
         THEN SetNftSyncInterval([nftMonitor EXCEPT !.isNftSyncRunning = TRUE])
       ELSE [nftMonitor EXCEPT !.isNftSyncRunning = TRUE,
                               !.isListening = TRUE, !.starting = @ + 1]
  /\ MonitorFrame

\* an awaiting startNftSyncMonitoring resumes: startTransferEventListener,
\* then setInterval
FinishStartNftSyncMonitoring ==
  /\ nftMonitor.starting > 0
  /\ nftMonitor.timers < MaxTimers
  /\ nftMonitor' =
       SetNftSyncInterval(
         startTransferEventListener([nftMonitor EXCEPT !.starting = @ - 1]))
  /\ MonitorFrame

\* an awaiting startNftSyncMonitoring throws: initializeLastProcessedBlock
\* falls back on getLatestBlockNumber, which rejects when the RPC is down
FailStartNftSyncMonitoring ==
  /\ nftMonitor.starting > 0
  /\ nftMonitor' = [nftMonitor EXCEPT !.starting = @ - 1]
  /\ MonitorFrame

\* stopNftSyncMonitoring by the admin route's handler
StopNftSyncMonitoring ==
  /\ nftMonitor' = stopNftSyncMonitoring(nftMonitor)
  /\ MonitorFrame

\* the contract.on('Transfer') callback: runs while the listener is attached
TransferListener(e) ==
  /\ nftMonitor.transferListenerActive
  /\ HandleTransferEvent(e)

\* the setInterval callback of startNftSyncMonitoring
NftSyncTimer(rpcOk) ==
  /\ nftMonitor.timers > 0
  /\ PerformHistoricalNftSync(rpcOk)

\* ============================================ admin routes: the two gates
\* client addresses, X-Admin-Key values ("" is no header), ADMIN_API_KEY
\* values ("" is not configured) and the admin routes requested
ClientIps == {"ip1", "ip2"}
ProvidedKeys == {"", "secret", "guess"}
AdminApiKeys == {"", "secret"}
AdminRoutes == {"/admin/nft-sync/start", "/admin/phase2-holder"}

NoRequestData == [present |-> FALSE, count |-> 0, resetTime |-> 0]

\* adminRateLimit: expired entries are deleted, the client's entry is
\* created when it has none, a full entry answers 429, otherwise the count
\* goes up and next() is called
adminRateLimit(counts, clientIp, now) ==
  LET cleaned == [ip \in ClientIps |->
                    IF counts[ip].present /\ now > counts[ip].resetTime
                      THEN NoRequestData ELSE counts[ip]]
      requestData == IF ~cleaned[clientIp].present
                       THEN [present |-> TRUE, count |-> 0,
                             resetTime |-> now + windowMs]
                       ELSE cleaned[clientIp]
  IN IF requestData.count >= maxRequests
       THEN [counts |-> [cleaned EXCEPT ![clientIp] = requestData],
             status |-> 429]
       ELSE [counts |-> [cleaned EXCEPT ![clientIp] =
                           [requestData EXCEPT !.count = @ + 1]],
             status |-> 0]

\* adminAuth that accepts any key that is provided
adminAuth_AnyKey(adminApiKey, production, providedKey) ==
  IF adminApiKey = "" THEN (IF production THEN 500 ELSE 0)
  ELSE IF providedKey = "" THEN 401
  ELSE 0

\* adminAuth: the status it answers, 0 when it calls next()
adminAuth(adminApiKey, production, providedKey) ==
  IF adminApiKey = "" THEN (IF production THEN 500 ELSE 0)
  ELSE IF providedKey = "" THEN 401
  ELSE IF providedKey # adminApiKey THEN 403
  ELSE 0

NoAdminResponse == [status |-> 0, handlerRan |-> FALSE]

\* a request to an admin route: router.use(adminRateLimit), then
\* router.use(adminAuth), then the route's handler (the allow-list route
\* adds a row for token 1)
AdminRequest(clientIp, providedKey, adminApiKey, production, route) ==
  LET limited == adminRateLimit(adminRequestCounts, clientIp, clock)
      status == IF limited.status # 0 THEN limited.status
                ELSE adminAuth(adminApiKey, production, providedKey)
      taken == \E h \in phase2Holders : h.id = 1
  IN /\ adminRequestCounts' = limited.counts
     /\ passedAt' = IF limited.status = 0
                      THEN [passedAt EXCEPT ![clientIp][clock] = @ + 1]
                      ELSE passedAt
     /\ adminResponse' =
          [status |-> IF status # 0 THEN status
                      ELSE IF route = "/admin/phase2-holder" /\ taken
                        THEN 500
                      ELSE 200,
           handlerRan |-> status = 0]
     /\ nftMonitor' =
          IF status = 0 /\ route = "/admin/nft-sync/start"
            THEN startNftSyncMonitoring(nftMonitor)
          ELSE nftMonitor
     /\ phase2Holders' =
          IF status = 0 /\ route = "/admin/phase2-holder" /\ ~taken
            THEN phase2Holders \cup
                   {[id |-> 1, userAddress |-> "0xAa", boxTypeId |-> 1,
                     signature |-> NoPhase2Signature]}
            ELSE phase2Holders
     /\ UNCHANGED <<nftInfo, originMetadataInfo, unrevealMetadataInfo,
                    lastProcessedBlock, chainVars, req, lastMetadata, perm,
                    syncVars, seedVars, phase2Sig, sigResponse,
                    batchResponse, clock>>

\* time passes; what passed more than windowMs before the new time is
\* dropped from passedAt
Tick ==
  /\ clock < MaxClock
  /\ clock' = clock + 1
  /\ passedAt' = [ip \in ClientIps |-> [t \in 0..MaxClock |->
                     IF t + windowMs <= clock + 1 THEN 0
                     ELSE passedAt[ip][t]]]
  /\ UNCHANGED <<storeVars, chainVars, req, lastMetadata, perm, syncVars,
                 seedVars, phase2Sig, sigResponse, batchResponse,
                 monitorVars, adminRequestCounts, adminResponse>>

\* ========================================================== specifications
StoreInit ==
  /\ nftInfo = <<>>
  /\ originMetadataInfo = <<>>
  /\ unrevealMetadataInfo = <<>>
  /\ phase2Holders = {}
  /\ lastProcessedBlock = 0
  /\ chainOwner = <<>>
  /\ soulboundToAvatar = [s \in SoulboundIds |-> 0]
  /\ avatarToSoulbound = [a \in Tokens |-> 0]
  /\ chainLog = {}
  /\ req = [r \in Reqs |-> IdleReq]
  /\ lastMetadata = [tokenId |-> 0, metadata |-> "", status |-> 0]
  /\ latestBlock = 0
  /\ handled = {}
  /\ sync = NoSync
  /\ revealed = FALSE
  /\ seedOnChain = 0
  /\ randomSeedInfo = {}
  /\ scheduler = NoScheduler
  /\ mappingPasses = 0
  /\ phase2Sig = NoSig
  /\ sigResponse = NoSigResponse
  /\ batchResponse = NoBatchResponse
  /\ nftMonitor = NoNftMonitor
  /\ adminRequestCounts = [ip \in ClientIps |-> NoRequestData]
  /\ clock = 0
  /\ adminResponse = NoAdminResponse
  /\ passedAt = [ip \in ClientIps |-> [t \in 0..MaxClock |-> 0]]

Init ==
  /\ StoreInit
  /\ perm = NoPerm

Next ==
  \/ \E r \in Reqs, tokenId \in 0..MaxToken :
       \E message \in ClientMessages(tokenId) :
         \E signature \in ClientSignatures(message) :
           RevealStart(r, tokenId, message, signature)
  \/ \E r \in Reqs, rpcOk \in BOOLEAN : RevealGetOwner(r, rpcOk)
  \/ \E r \in Reqs : RevealTxRead(r)
  \/ \E r \in Reqs : RevealTxPool(r)
  \/ \E r \in Reqs : RevealTxUpdateNft(r)
  \/ \E r \in Reqs : RevealTxUpdateOrigin(r)
  \/ \E r \in Reqs : RevealTxCommit(r)
  \/ \E r \in Reqs : RevealRespond(r)
  \/ \E to \in Addrs : ChainMint(to)
  \/ \E tokenId \in Tokens, to \in Addrs : ChainTransfer(tokenId, to)
  \/ \E e \in chainLog : HandleTransferEvent(e)
  \/ \E originId \in Origins, boxTypeId \in BoxTypes, metadata \in OriginDocs :
       CreateOriginMetadata(originId, boxTypeId, metadata)

Spec == Init /\ [][Next]_vars

\* the permutation engine on its own: every seed and modulus of the bounds
PermInit ==
  /\ StoreInit
  /\ \E seed \in 0..MaxSeed, maxSupply \in 0..MaxSupply :
       perm = [NoPerm EXCEPT !.seed = seed, !.maxSupply = maxSupply]

PermNext ==
  \/ \E tokenId \in 1..MaxSupply : tokenId <= perm.maxSupply /\ CalculateMetadataId(tokenId)
  \/ \E tokenId \in 1..MaxSupply : tokenId <= perm.maxSupply /\ TokenURI(tokenId)

PermSpec == PermInit /\ [][PermNext]_vars

\* the resolver next to one reveal request, the allow-list and the
\* placeholder documents
ResolverNext ==
  \/ \E tokenId \in Tokens :
       \E message \in ClientMessages(tokenId) :
         \E signature \in ClientSignatures(message) :
           RevealStart(1, tokenId, message, signature)
  \/ RevealGetOwner(1, TRUE)
  \/ RevealTxRead(1)
  \/ RevealTxPool(1)
  \/ RevealTxUpdateNft(1)
  \/ RevealTxUpdateOrigin(1)
  \/ RevealTxCommit(1)
  \/ RevealRespond(1)
  \/ \E to \in Addrs : ChainMint(to)
  \/ \E e \in chainLog : HandleTransferEvent(e)
  \/ \E originId \in Origins, boxTypeId \in BoxTypes, metadata \in OriginDocs :
       CreateOriginMetadata(originId, boxTypeId, metadata)
  \/ \E boxTypeId \in BoxTypes, metadata \in BlindDocs :
       CreateBlindBoxMetadata(boxTypeId, metadata)
  \/ \E userAddress \in Addrs, boxTypeId \in Phase2BoxTypes :
       AddPhase2Holder(userAddress, boxTypeId, 1)
  \/ \E tokenId \in Tokens : GetTokenMetadata(tokenId)

ResolverSpec == Init /\ [][ResolverNext]_vars

\* the Transfer watcher: push deliveries in any order and any number of
\* times, the periodic and the forced catch-up, the allow-list
SyncNext ==
  \/ \E to \in Addrs : ChainMint(to)
  \/ \E tokenId \in Tokens, to \in Addrs : ChainTransfer(tokenId, to)
  \/ MineBlock
  \/ \E userAddress \in Addrs, boxTypeId \in Phase2BoxTypes :
       AddPhase2Holder(userAddress, boxTypeId, 1)
  \/ \E e \in chainLog : HandleTransferEvent(e)
  \/ \E rpcOk \in BOOLEAN : PerformHistoricalNftSync(rpcOk)
  \/ \E fromBlock \in 0..MaxBlock, toBlock \in 0..MaxBlock, rpcOk \in BOOLEAN :
       ForceNftSync(fromBlock, toBlock, rpcOk)
  \/ \E timestampOk \in BOOLEAN, storeOk \in BOOLEAN :
       SyncHandleEvent(timestampOk, storeOk)
  \/ SyncFinish

SyncSpec == Init /\ [][SyncNext]_vars

\* the Transfer watcher with every RPC and store call succeeding and the
\* catch-up timer firing for ever; the push subscription may deliver or not
SyncLiveNext ==
  \/ \E to \in Addrs : ChainMint(to)
  \/ \E tokenId \in Tokens, to \in Addrs : ChainTransfer(tokenId, to)
  \/ MineBlock
  \/ \E e \in chainLog : HandleTransferEvent(e)
  \/ PerformHistoricalNftSync(TRUE)
  \/ SyncHandleEvent(TRUE, TRUE)
  \/ SyncFinish

SyncLiveSpec ==
  /\ Init
  /\ [][SyncLiveNext]_vars
  /\ WF_vars(PerformHistoricalNftSync(TRUE))
  /\ WF_vars(SyncHandleEvent(TRUE, TRUE))
  /\ WF_vars(SyncFinish)

\* the seed watcher next to the admin seed routes, process restarts and mints
SeedNext ==
  \/ \E seed \in Seeds : SetRandomSeed(seed)
  \/ \E to \in Addrs : ChainMint(to)
  \/ \E e \in chainLog : HandleTransferEvent(e)
  \/ \E rpcOk \in BOOLEAN : StartServer(rpcOk)
  \/ \E rpcOk \in BOOLEAN : StartRandomSeedMonitoring(rpcOk)
  \/ StartSetInterval
  \/ \E rpcOk \in BOOLEAN : TimerTick(rpcOk)
  \/ \E rpcOk \in BOOLEAN : ForceCheck(rpcOk)
  \/ \E rpcOk \in BOOLEAN : AdminSyncRandomSeed(rpcOk)
  \/ StopServer

SeedSpec == Init /\ [][SeedNext]_vars

\* the seed watcher of one process run, its timer firing for ever and its
\* checks succeeding again and again
SeedLiveNext ==
  \/ \E seed \in Seeds : SetRandomSeed(seed)
  \/ \E to \in Addrs : ChainMint(to)
  \/ \E e \in chainLog : HandleTransferEvent(e)
  \/ \E rpcOk \in BOOLEAN : StartServer(rpcOk)
  \/ \E rpcOk \in BOOLEAN : StartRandomSeedMonitoring(rpcOk)
  \/ StartSetInterval
  \/ \E rpcOk \in BOOLEAN : TimerTick(rpcOk)

SeedLiveSpec ==
  /\ Init
  /\ [][SeedLiveNext]_vars
  /\ WF_vars(\E rpcOk \in BOOLEAN : StartRandomSeedMonitoring(rpcOk))
  /\ WF_vars(StartSetInterval)
  /\ WF_vars(TimerTick(TRUE))

\* the Phase2 signature scheme: any issue, any check of the issued signature
SigNext ==
  \/ \E address \in Addrs \cup LowerAddrs, tokenId \in Tokens,
        key \in SignerKeys : IssueSignature(address, tokenId, key)
  \/ \E address \in Addrs \cup LowerAddrs, tokenId \in Tokens,
        key \in SignerKeys :
       CheckSignature(address, tokenId, signerAddress(key))

SigSpec == Init /\ [][SigNext]_vars

\* the allow-list and the signature route: rows are added, signatures are
\* requested with and without a tokenId and a configured signer key
Phase2Next ==
  \/ \E userAddress \in Addrs, boxTypeId \in BoxTypes, tokenId \in Tokens :
       AddPhase2Holder(userAddress, boxTypeId, tokenId)
  \/ \E address \in Addrs \cup {"0xaa"}, boxTypeId \in BoxTypes,
        tokenId \in 0..MaxToken, key \in SignerKeys \cup {""} :
       RequestSignature(address, boxTypeId, tokenId, key)

Phase2Spec == Init /\ [][Phase2Next]_vars

\* the contract's mints: soulbound holders with signatures of either key,
\* the public mint, giveaways, and transfers of the minted tokens
SoulboundNext ==
  \/ \E msgSender \in Addrs, tokenId \in SoulboundIds,
        signature \in SoulboundSignatures :
       MintBySoulboundHolder(msgSender, tokenId, signature)
  \/ \E to \in Addrs : ChainMint(to)
  \/ \E to \in Addrs, quantity \in 1..MaxToken : MintGiveawayTokens(to, quantity)
  \/ \E tokenId \in Tokens, to \in Addrs : ChainTransfer(tokenId, to)
  \/ MineBlock

SoulboundSpec == Init /\ [][SoulboundNext]_vars

\* the allow-list routes: single additions and batches
BatchNext ==
  \/ \E userAddress \in Addrs, boxTypeId \in BoxTypes, tokenId \in Tokens :
       AddPhase2Holder(userAddress, boxTypeId, tokenId)
  \/ \E holders \in Batches : BatchPhase2Holders(holders)

BatchSpec == Init /\ [][BatchNext]_vars

\* the NFT sync monitor started and stopped while the chain goes on: the
\* attached listener, the timer and the catch-up loop in progress
MonitorNext ==
  \/ \E to \in Addrs : ChainMint(to)
  \/ \E tokenId \in Tokens, to \in Addrs : ChainTransfer(tokenId, to)
  \/ MineBlock
  \/ StartNftSyncMonitoring
  \/ StopNftSyncMonitoring
  \/ \E e \in chainLog : TransferListener(e)
  \/ \E rpcOk \in BOOLEAN : NftSyncTimer(rpcOk)
  \/ \E timestampOk \in BOOLEAN, storeOk \in BOOLEAN :
       SyncHandleEvent(timestampOk, storeOk)
  \/ SyncFinish

MonitorSpec == Init /\ [][MonitorNext]_vars

\* the NFT sync monitor started and stopped by requests that overlap: a
\* start may still await when a stop or another start is handled
StartStopNext ==
  \/ \E to \in Addrs : ChainMint(to)
  \/ BeginStartNftSyncMonitoring
  \/ FinishStartNftSyncMonitoring
  \/ FailStartNftSyncMonitoring
  \/ StopNftSyncMonitoring
  \/ \E e \in chainLog : TransferListener(e)
  \/ \E rpcOk \in BOOLEAN : NftSyncTimer(rpcOk)
  \/ \E timestampOk \in BOOLEAN, storeOk \in BOOLEAN :
       SyncHandleEvent(timestampOk, storeOk)
  \/ SyncFinish

StartStopSpec == Init /\ [][StartStopNext]_vars

\* the two watchers of one server: the seed watcher started by startServer
\* and stopped by itself or by the admin route, the NFT sync monitor
\* started and stopped by requests that overlap
WatcherNext ==
  \/ \E seed \in Seeds : SetRandomSeed(seed)
  \/ \E rpcOk \in BOOLEAN : StartServer(rpcOk)
  \/ \E rpcOk \in BOOLEAN : StartRandomSeedMonitoring(rpcOk)
  \/ StartSetInterval
  \/ \E rpcOk \in BOOLEAN : TimerTick(rpcOk)
  \/ StopRandomSeedMonitoring
  \/ BeginStartNftSyncMonitoring
  \/ FinishStartNftSyncMonitoring
  \/ FailStartNftSyncMonitoring
  \/ StopNftSyncMonitoring

WatcherSpec == Init /\ [][WatcherNext]_vars

\* requests to the admin routes from two clients as time passes, with and
\* without ADMIN_API_KEY configured
GateNext ==
  \/ \E clientIp \in ClientIps, providedKey \in ProvidedKeys,
        adminApiKey \in AdminApiKeys, production \in BOOLEAN,
        route \in AdminRoutes :
       AdminRequest(clientIp, providedKey, adminApiKey, production, route)
  \/ Tick

GateSpec == Init /\ [][GateNext]_vars

\* mint handling next to what fills originId and metadataId: one reveal
\* request with the owner's signature, the seed and the admin seed sync
ReplayNext ==
  \/ \E to \in Addrs : ChainMint(to)
  \/ \E e \in chainLog : HandleTransferEvent(e)
  \/ \E userAddress \in Addrs, boxTypeId \in Phase2BoxTypes :
       AddPhase2Holder(userAddress, boxTypeId, 1)
  \/ \E originId \in Origins, boxTypeId \in BoxTypes, metadata \in OriginDocs :
       CreateOriginMetadata(originId, boxTypeId, metadata)
  \/ \E tokenId \in Tokens, a \in Addrs :
       RevealStart(1, tokenId, generateRevealMessage(tokenId, a),
                   Sign(toLowerCase(a), generateRevealMessage(tokenId, a)))
  \/ RevealGetOwner(1, TRUE)
  \/ RevealTxRead(1)
  \/ RevealTxPool(1)
  \/ RevealTxUpdateNft(1)
  \/ RevealTxUpdateOrigin(1)
  \/ RevealTxCommit(1)
  \/ RevealRespond(1)
  \/ \E seed \in Seeds : SetRandomSeed(seed)
  \/ \E rpcOk \in BOOLEAN : StartServer(rpcOk)
  \/ \E rpcOk \in BOOLEAN : AdminSyncRandomSeed(rpcOk)

ReplaySpec == Init /\ [][ReplayNext]_vars

\* the mapping-generation pass over minted tokens, revealed or not: the
\* startup and the admin seed sync next to mints and one reveal request
MappingNext ==
  \/ \E to \in Addrs : ChainMint(to)
  \/ \E e \in chainLog : HandleTransferEvent(e)
  \/ CreateOriginMetadata(1, 3, "art")
  \/ \E a \in Addrs :
       RevealStart(1, 1, generateRevealMessage(1, a),
                   Sign(toLowerCase(a), generateRevealMessage(1, a)))
  \/ RevealGetOwner(1, TRUE)
  \/ RevealTxRead(1)
  \/ RevealTxPool(1)
  \/ RevealTxUpdateNft(1)
  \/ RevealTxUpdateOrigin(1)
  \/ RevealTxCommit(1)
  \/ RevealRespond(1)
  \/ \E seed \in Seeds : SetRandomSeed(seed)
  \/ \E rpcOk \in BOOLEAN : StartServer(rpcOk)
  \/ \E rpcOk \in BOOLEAN : AdminSyncRandomSeed(rpcOk)

MappingSpec == Init /\ [][MappingNext]_vars

\* ================================================================= claims
TxPcs == {"txRead", "txPool", "txUpdateNft", "txUpdateOrigin", "txCommit",
          "respond"}

\* C1: once a token's originId is non-zero, no step changes it.
C1_OriginIdNeverChanges ==
  [][\A t \in DOMAIN nftInfo :
       nftInfo[t].originId # 0 => nftInfo'[t].originId = nftInfo[t].originId]_vars

\* C2: no two nft_info rows carry the same non-zero originId.
C2_OriginReferencedOnce ==
  \A t1, t2 \in DOMAIN nftInfo :
    (t1 # t2 /\ nftInfo[t1].originId # 0)
      => nftInfo[t1].originId # nftInfo[t2].originId

\* C3: in every committed state an origin row is marked assigned exactly
\* when some nft_info row references it.
C3_AssignedIffReferenced ==
  \A o \in DOMAIN originMetadataInfo :
    originMetadataInfo[o].isAssigned
      <=> (\E t \in DOMAIN nftInfo : nftInfo[t].originId = o)

\* C4: for every seed and modulus N > 1 the affine map i -> (a*i + b) mod N
\* takes 0..N-1 onto 0..N-1 without collision, and calculateMetadataId takes
\* the token ids 1..N one-to-one onto the metadata ids 1..N.
C4_PermutationBijective ==
  perm.maxSupply > 1 =>
    LET N == perm.maxSupply
        p == derivePermutationParams(perm.seed, N)
    IN /\ {(p.a * i + p.b) % N : i \in 0..(N - 1)} = 0..(N - 1)
       /\ {calculateMetadataId(t, perm.seed, N) : t \in 1..N} = 1..N
       /\ perm.tokenId # 0 => perm.metadataId \in 1..N

\* a modulus with non-units, a seed whose first candidate for a is one of
\* them, and a token whose metadata id has been computed
C4_Witness ==
  /\ perm.maxSupply = 6
  /\ gcd(solidityPackedKeccak256(perm.seed, "a") % 6, 6) # 1
  /\ derivePermutationParams(perm.seed, 6).a > 1
  /\ perm.tokenId > 1
  /\ perm.metadataId # 0

\* C5: for every seed, maxSupply N > 1 and token id in 1..N the backend's
\* calculateMetadataId equals the metadata id of the contract's tokenURI,
\* with the same a and b.
C5_BackendMatchesContract ==
  perm.maxSupply > 1 =>
    /\ derivePermutationParams(perm.seed, perm.maxSupply)
         = _derivePermutationParams(perm.seed, perm.maxSupply)
    /\ \A t \in 1..perm.maxSupply :
         calculateMetadataId(t, perm.seed, perm.maxSupply)
           = tokenURI(t, perm.seed, perm.maxSupply)
    /\ (perm.tokenId # 0 /\ perm.tokenId = perm.uriTokenId)
         => perm.metadataId = perm.uriMetadataId

\* both sides have answered for the same token, away from the identity map
C5_Witness ==
  /\ perm.maxSupply > 2
  /\ perm.tokenId > 1
  /\ perm.tokenId = perm.uriTokenId
  /\ perm.metadataId = perm.uriMetadataId
  /\ perm.metadataId # perm.tokenId
  /\ derivePermutationParams(perm.seed, perm.maxSupply).a > 1

\* C6: a reveal request goes on to the transaction only when its message is
\* the canonical message for the token's current on-chain owner and the
\* signature recovers to that owner; once ownerOf has answered, a wrong
\* message is answered 400 Invalid message and a wrong signature 401, and a
\* rejected request changes no nft_info and no origin_metadata_info row; rows
\* change only at the commit of a request that passed the checks.
C6_RevealRequiresOwnerSignature ==
  [][/\ \A r \in Reqs :
          LET q == req[r]
              minted == q.tokenId \in DOMAIN chainOwner
              owner == getAddress(chainOwner[q.tokenId])
              messageOk ==
                /\ minted
                /\ q.message.tag = "SLASH206: Reveal token"
                /\ q.message.tokenId = q.tokenId
                /\ q.message.address = owner
              signatureOk ==
                /\ minted
                /\ q.signature # MalformedSignature
                /\ q.signature.msg = q.message
                /\ getAddress(q.signature.signer) = owner
              res == req'[r].res
          IN (q.pc = "getOwner" /\ req'[r] # q) =>
               /\ req'[r].pc # "done" => (messageOk /\ signatureOk)
               /\ (res.error # "Failed to verify token ownership" /\ ~messageOk)
                    => (res.status = 400 /\ res.error = "Invalid message")
               /\ (res.error # "Failed to verify token ownership"
                     /\ messageOk /\ ~signatureOk)
                    => /\ res.status = 401
                       /\ res.error \in {"Invalid signature format",
                                         "Signature does not match token owner"}
               /\ req'[r].pc = "done" => UNCHANGED <<nftInfo, originMetadataInfo>>
     /\ \A r \in Reqs :
          (req'[r].pc \in TxPcs /\ req[r].pc \notin TxPcs) => req[r].pc = "getOwner"
     /\ ((\E t \in DOMAIN nftInfo : nftInfo'[t].originId # nftInfo[t].originId)
           \/ (\E o \in DOMAIN originMetadataInfo :
                 originMetadataInfo'[o] # originMetadataInfo[o]))
          => \E r \in Reqs : req[r].pc = "txCommit" /\ req'[r].pc = "respond"
    ]_vars

\* one request was answered Invalid message, another 401 for a signature of
\* someone who is not the owner
C6_Witness ==
  \E r1, r2 \in Reqs :
    /\ req[r1].res = ErrorResponse(400, "Invalid message")
    /\ req[r2].res = ErrorResponse(401, "Signature does not match token owner")

\* C7: a well-formed reveal request for a token whose reveal has been
\* committed is answered 400 Token already revealed and changes no nft_info
\* and no origin_metadata_info row.
C7_RevealedTokenRejected ==
  [][\A r \in Reqs, t \in Tokens :
       \A m \in ClientMessages(t) \ {NoMessage} :
         \A sig \in ClientSignatures(m) \ {NoSignature} :
           (/\ RevealStart(r, t, m, sig)
            /\ t \in DOMAIN nftInfo
            /\ nftInfo[t].originId # 0)
             => /\ req'[r].pc = "done"
                /\ req'[r].res = ErrorResponse(400, "Token already revealed")
                /\ UNCHANGED <<nftInfo, originMetadataInfo>>
    ]_vars

\* one request revealed a token and the other was then turned away
C7_Witness ==
  \E r1, r2 \in Reqs :
    /\ req[r1].res.status = 200
    /\ req[r2].res = ErrorResponse(400, "Token already revealed")
    /\ nftInfo[req[r1].res.tokenId].originId # 0

\* C8: when two transactions for distinct tokens of one box type run
\* concurrently, each having found exactly the same two unassigned rows,
\* then once both have committed the tokens are bound to distinct origins
\* and no row of the box type is left unassigned.
C8_ConcurrentRevealsDistinct ==
  [][\A r1, r2 \in Reqs :
       (/\ r1 # r2
        /\ req[r1].pc = "respond"
        /\ RevealTxCommit(r2)
        /\ req[r1].tokenId # req[r2].tokenId
        /\ req[r1].boxTypeId = req[r2].boxTypeId
        /\ Cardinality(req[r1].availableOrigins) = 2
        /\ req[r2].availableOrigins = req[r1].availableOrigins)
         => /\ nftInfo'[req[r1].tokenId].originId
                 # nftInfo'[req[r2].tokenId].originId
            /\ \A o \in DOMAIN originMetadataInfo' :
                 originMetadataInfo'[o].boxTypeId = req[r1].boxTypeId
                   => originMetadataInfo'[o].isAssigned
    ]_vars

\* C9: when the pool query of an authorized reveal of an unrevealed token
\* finds no unassigned row of the token's box type, the request is answered
\* 500 No available metadata, the token's originId stays 0 and no
\* origin_metadata_info row changes.
C9_EmptyPoolFails ==
  [][\A r \in Reqs :
       (/\ RevealTxPool(r)
        /\ \A o \in DOMAIN originMetadataInfo :
             originMetadataInfo[o].boxTypeId = req[r].boxTypeId
               => originMetadataInfo[o].isAssigned)
         => /\ req'[r].pc = "done"
            /\ req'[r].res = ErrorResponse(500, "No available metadata for box type")
            /\ UNCHANGED <<nftInfo, originMetadataInfo>>
            /\ (nftInfo[req[r].tokenId].originId = 0
                  => nftInfo'[req[r].tokenId].originId = 0)
    ]_vars

\* a request failed on an empty pool while a row of another box type was
\* free, and its token is still unrevealed
C9_Witness ==
  \E r \in Reqs :
    /\ req[r].res = ErrorResponse(500, "No available metadata for box type")
    /\ \E o \in DOMAIN originMetadataInfo : ~originMetadataInfo[o].isAssigned
    /\ \E t \in DOMAIN nftInfo : nftInfo[t].originId = 0

\* C10: getTokenMetadata of an existing token answers the blind-box document
\* of its box type while originId = 0 and the document of its origin row
\* once originId is non-zero.
C10_ResolverFollowsOriginId ==
  [][\A t \in Tokens :
       (GetTokenMetadata(t) /\ t \in DOMAIN nftInfo)
         => lastMetadata'.metadata =
              IF nftInfo[t].originId = 0
                THEN getBlindBoxMetadata(nftInfo[t].boxTypeId)
                ELSE getRevealedMetadata(nftInfo[t].originId)
    ]_vars

\* ------------------------------------------------- chain reconciliation
IsMint(e) == toLowerCase(e.from) = toLowerCase(ZERO_ADDRESS)

\* the catch-up loop is about to handle event e
SyncAt(e) == sync.pc = "loop" /\ sync.events # <<>> /\ Head(sync.events) = e

\* C11: GET /metadata/:tokenId for an unrevealed token whose box type has no
\* unreveal_metadata_info row answers 404, as for a missing token, and
\* returns no metadata document.
C11_MissingPlaceholderNotFound ==
  [][\A t \in Tokens :
       (/\ GetTokenMetadata(t)
        /\ t \in DOMAIN nftInfo
        /\ nftInfo[t].originId = 0
        /\ nftInfo[t].boxTypeId \notin DOMAIN unrevealMetadataInfo)
         => /\ lastMetadata'.status = 404
            /\ lastMetadata'.metadata \notin BlindDocs \cup OriginDocs
    ]_vars

\* C12: a mint event whose block timestamp is at or after the public-sale
\* start time leaves an nft_info row with boxTypeId = 3, allow-listed
\* recipient or not, whether the push subscription or the catch-up handles
\* it.
C12_PublicSaleMintIsPublic ==
  [][\A e \in chainLog :
       (/\ IsMint(e)
        /\ BlockTimestamp(e.blockNumber) >= PublicStartTime
        /\ \/ HandleTransferEvent(e)
           \/ SyncAt(e) /\ SyncHandleEvent(TRUE, TRUE))
         => nftInfo'[e.tokenId].boxTypeId = 3
    ]_vars

\* C13: a mint event whose block timestamp is before the public-sale start
\* time, or whose timestamp cannot be read, leaves boxTypeId equal to the
\* box type of the recipient's allow-list entry when there is one, and 3
\* otherwise.
C13_EarlyMintFollowsAllowList ==
  [][\A e \in chainLog :
       (/\ IsMint(e)
        /\ \/ /\ BlockTimestamp(e.blockNumber) < PublicStartTime
              /\ \/ HandleTransferEvent(e)
                 \/ SyncAt(e) /\ SyncHandleEvent(TRUE, TRUE)
           \/ SyncAt(e) /\ SyncHandleEvent(FALSE, TRUE))
         => LET holders == {h \in phase2Holders : h.userAddress = e.to}
            IN IF holders = {}
                 THEN nftInfo'[e.tokenId].boxTypeId = 3
                 ELSE \E h \in holders :
                        nftInfo'[e.tokenId].boxTypeId = h.boxTypeId
    ]_vars

\* the catch-up has handled a mint of a block before the public-sale start
\* to an allow-listed recipient, whose row carries the allow-list box type
C13_Witness ==
  \E e \in handled :
    /\ IsMint(e)
    /\ BlockTimestamp(e.blockNumber) < PublicStartTime
    /\ sync.mints > 0
    /\ \E h \in phase2Holders : h.userAddress = e.to
    /\ e.tokenId \in DOMAIN nftInfo
    /\ nftInfo[e.tokenId].boxTypeId \in Phase2BoxTypes

\* C14: handling a non-mint Transfer(from, to, tokenId) leaves nft_info as it
\* is when the token has no row or its stored owner is not from; when the
\* stored owner is from, only that row's userAddress changes, to `to`.
C14_TransferGuard ==
  [][\A e \in chainLog :
       (/\ ~IsMint(e)
        /\ \/ HandleTransferEvent(e)
           \/ SyncAt(e) /\ (\E timestampOk \in BOOLEAN :
                              SyncHandleEvent(timestampOk, TRUE)))
         => nftInfo' =
              IF e.tokenId \in DOMAIN nftInfo
                   /\ nftInfo[e.tokenId].userAddress = e.from
                THEN [nftInfo EXCEPT ![e.tokenId].userAddress = e.to]
                ELSE nftInfo
    ]_vars

\* a transfer was handled while its token had no row or another owner: the
\* row created since by the mint still carries the mint's recipient
C14_Witness ==
  \E e \in handled :
    /\ ~IsMint(e)
    /\ e.tokenId \in DOMAIN nftInfo
    /\ nftInfo[e.tokenId].userAddress = e.from
    /\ nftInfo[e.tokenId].userAddress # e.to

\* C15: once every Transfer event of a token (its mint and its transfers)
\* has been handled at least once, in whatever order and however often, the
\* stored userAddress is the token's on-chain owner.
C15_OwnerFollowsChain ==
  \A t \in DOMAIN chainOwner :
    ({e \in chainLog : e.tokenId = t} \subseteq handled)
      => /\ t \in DOMAIN nftInfo
         /\ nftInfo[t].userAddress = chainOwner[t]

C17_EveryEventEventuallyApplied ==
  <>[](\A e \in chainLog : e.blockNumber < latestBlock => e \in handled)

\* C18: a syncHistoricalEvents run whose event query succeeded handles every
\* returned event, going on after a handler failure, and returns counts with
\* processed + errors = events returned and mints + transfers = processed;
\* it throws only when the query fails.
C18_SyncCountsAddUp ==
  /\ sync.pc = "loop"
       => /\ sync.processed + sync.errors = sync.total - Len(sync.events)
          /\ sync.mints + sync.transfers = sync.processed
  /\ sync.outcome = "returned"
       => /\ sync.events = <<>>
          /\ sync.processed + sync.errors = sync.total
          /\ sync.mints + sync.transfers = sync.processed
  /\ sync.outcome = "threw"
       => sync.total = 0 /\ sync.processed = 0 /\ sync.errors = 0

\* a run over two events returned its counts after one handler failed and
\* the other succeeded
C18_Witness ==
  /\ sync.outcome = "returned"
  /\ sync.total = 2
  /\ sync.errors = 1
  /\ sync.processed = 1

\* C19: once the row of the contract's seed is marked mappingsGenerated, no
\* seed check, forced check, admin seed sync or startup sync runs the
\* mapping-generation pass again.
C19_MappingPassRunsOnce ==
  [][(\E row \in randomSeedInfo :
        row.randomSeed = ContractSeed /\ row.mappingsGenerated)
       => mappingPasses' = mappingPasses
    ]_vars

\* the seed watcher has come to rest: not running, no timer, its start call
\* returned, the contract's seed persisted
WatcherStopped ==
  /\ ~scheduler.isRunning
  /\ ~scheduler.intervalId
  /\ scheduler.pc = "idle"
  /\ \E row \in randomSeedInfo : row.randomSeed = seedOnChain

\* C20: once the contract reports a revealed non-zero seed while the seed
\* watcher is started, the watcher in the end has persisted the seed, run
\* the mapping generation and stopped for good: isRunning is false and no
\* seed-check timer is left.
C20_WatcherStops ==
  [](( /\ revealed
       /\ seedOnChain # 0
       /\ scheduler.pc \in {"start", "setInterval", "idle"})
      => <>[]WatcherStopped)

\* the watcher stopped after a pass over existing rows marked the seed's row
C20_Witness ==
  /\ revealed
  /\ WatcherStopped
  /\ mappingPasses > 0
  /\ \E row \in randomSeedInfo : row.mappingsGenerated

\* ------------------------------------------------------ Phase2 signatures
\* C21: a signature issued for (address, tokenId) under a signer key is
\* accepted by verifyPhase2Signature and by the contract's verify for that
\* account, that token id and that key's address, and is rejected by both
\* for another account, another token id or another expected signer.
C21_SignatureRoundTrip ==
  phase2Sig.checked =>
    LET same == /\ getAddress(phase2Sig.checkAddress)
                     = getAddress(phase2Sig.address)
                /\ phase2Sig.checkTokenId = phase2Sig.tokenId
                /\ phase2Sig.checkSigner = signerAddress(phase2Sig.key)
    IN /\ phase2Sig.backend = same
       /\ phase2Sig.contract = same

\* a signature issued for the lower-case spelling of an account was accepted
\* by the backend and the contract for the checksummed spelling
C21_Witness ==
  /\ phase2Sig.checked
  /\ phase2Sig.backend
  /\ phase2Sig.contract
  /\ phase2Sig.address # phase2Sig.checkAddress
  /\ phase2Sig.tokenId = MaxToken

\* C22: a signature request for an (address, boxTypeId) pair with no
\* phase2_holders row returns no signature and changes no phase2_holders
\* row; it is answered 404 when it carries a tokenId (a body without tokenId
\* is answered 400 before the allow-list is looked at).
C22_IneligibleRequestNotFound ==
  [][\A address \in Addrs \cup {"0xaa"}, boxTypeId \in BoxTypes,
        tokenId \in 0..MaxToken, key \in SignerKeys \cup {""} :
       (/\ ~\E h \in phase2Holders :
              h.userAddress = address /\ h.boxTypeId = boxTypeId
        /\ RequestSignature(address, boxTypeId, tokenId, key))
         => /\ sigResponse'.signature = NoPhase2Signature
            /\ phase2Holders' = phase2Holders
            /\ sigResponse'.status = IF tokenId = 0 THEN 400 ELSE 404]_vars

\* a request was answered 404 while the allow-list held a row with a stored
\* signature (another pair's)
C22_Witness ==
  /\ sigResponse.status = 404
  /\ \E h \in phase2Holders : h.signature # NoPhase2Signature

\* ------------------------------------------------------ box type of a reveal
\* C23: in every reachable state every nft_info row with a non-zero originId
\* has the boxTypeId of the origin_metadata_info row it is bound to, also
\* after mint events for that token are handled again.
C23_BoxTypeMatchesOrigin ==
  \A t \in DOMAIN nftInfo :
    (nftInfo[t].originId # 0 /\ nftInfo[t].originId \in DOMAIN originMetadataInfo)
      => nftInfo[t].boxTypeId = originMetadataInfo[nftInfo[t].originId].boxTypeId

\* ------------------------------------------------------ allow-list batches
\* C24: in the batch route an entry that cannot be added (no address, or a
\* token id the store already holds) is skipped; the batch is answered 200
\* and the row of every entry that can be added, before and after it in the
\* list, is in the store afterwards.
C24_BatchSkipsFailures ==
  [][BatchPhase2Holders(batchResponse'.holders)
       => LET holders == batchResponse'.holders
          IN /\ batchResponse'.status = 200
             /\ \A i \in 1..Len(holders) :
                  (/\ WellFormed(holders[i])
                   /\ \A h \in phase2Holders : h.id # holders[i].tokenId
                   /\ \A j \in 1..(i - 1) :
                        ~WellFormed(holders[j])
                          \/ holders[j].tokenId # holders[i].tokenId)
                    => \E h \in phase2Holders' :
                         /\ h.id = holders[i].tokenId
                         /\ h.userAddress = holders[i].userAddress]_vars

\* ------------------------------------------------------- NFT sync monitor
\* C25: once stopNftSyncMonitoring has returned, and until monitoring is
\* started again, no step changes an nft_info row or lastProcessedBlock:
\* neither a pushed Transfer event nor the periodic catch-up.
C25_StopStopsSync ==
  [][(~nftMonitor.isNftSyncRunning /\ ~nftMonitor'.isNftSyncRunning)
       => (nftInfo' = nftInfo /\ lastProcessedBlock' = lastProcessedBlock)]_vars

\* ------------------------------------------------------------ admin gates
\* C26 as stated: with ADMIN_API_KEY configured, a request to an admin route
\* without X-Admin-Key is answered 401 and one with another key 403; the
\* handler does not run and the store, the scheduler and the sync state are
\* unchanged.
C26_UnauthenticatedRejected ==
  [][\A clientIp \in ClientIps, providedKey \in {"", "guess"},
        production \in BOOLEAN, route \in AdminRoutes :
       AdminRequest(clientIp, providedKey, "secret", production, route)
         => /\ adminResponse'.status = IF providedKey = "" THEN 401 ELSE 403
            /\ ~adminResponse'.handlerRan
            /\ UNCHANGED <<storeVars, syncVars, seedVars, monitorVars>>]_vars

\* C26 amended: with ADMIN_API_KEY configured, a request to an admin route
\* without X-Admin-Key is answered 401 and one with another key 403, unless
\* the client's rate-limit window is full, in which case it is answered 429;
\* in all these cases the handler does not run and the store, the scheduler
\* and the sync state are unchanged.
C26_UnauthenticatedRejectedOrLimited ==
  [][\A clientIp \in ClientIps, providedKey \in {"", "guess"},
        production \in BOOLEAN, route \in AdminRoutes :
       AdminRequest(clientIp, providedKey, "secret", production, route)
         => LET entry == adminRequestCounts[clientIp]
                full == /\ entry.present
                        /\ clock <= entry.resetTime
                        /\ entry.count >= maxRequests
            IN /\ adminResponse'.status =
                    IF full THEN 429
                    ELSE IF providedKey = "" THEN 401 ELSE 403
               /\ ~adminResponse'.handlerRan
               /\ UNCHANGED <<storeVars, syncVars, seedVars,
                              monitorVars>>]_vars

\* a request with a wrong key was answered 403 by a server whose monitor an
\* authenticated request had started
C26_Witness ==
  /\ adminResponse.status = 403
  /\ ~adminResponse.handlerRan
  /\ nftMonitor.isNftSyncRunning

\* C27: for every client IP, at most maxRequests requests have passed the
\* rate limiter in the interval of windowMs that ends now, whenever now is.
C27_AtMostMaxPerWindow ==
  \A ip \in ClientIps :
    LET during[u \in -1..clock] ==
          IF u < 0 \/ u + windowMs <= clock THEN 0
          ELSE during[u - 1] + passedAt[ip][u]
    IN during[clock] <= maxRequests

\* ------------------------------------------------- permutation parameters
\* C28: for every seed and modulus N > 1 derivePermutationParams ends, after
\* fewer than N turns of its search loop, with 1 <= a <= N-1, a and N
\* without a common divisor above 1, and 0 <= b <= N-1; for a modulus <= 1 it
\* throws and returns no parameters, and so does calculateMetadataId.
C28_ParamsInRange ==
  LET N == perm.maxSupply
      p == derivePermutationParams(perm.seed, N)
      first == solidityPackedKeccak256(perm.seed, "a") % N
  IN IF N > 1
       THEN /\ SearchTurns(IF first = 0 THEN 1 ELSE first, N) < N
            /\ p.a \in 1..(N - 1)
            /\ \A d \in 2..N : ~(p.a % d = 0 /\ N % d = 0)
            /\ p.b \in 0..(N - 1)
       ELSE /\ p = NoParams
            /\ perm.metadataId = 0

\* a modulus for which the search loop took at least two turns, and a
\* metadata id computed with the parameters found
C28_Witness ==
  /\ perm.maxSupply > 1
  /\ SearchTurns(solidityPackedKeccak256(perm.seed, "a") % perm.maxSupply,
                 perm.maxSupply) >= 2
  /\ perm.metadataId # 0

\* ------------------------------------------------------ mapping generation
\* a step that runs the mapping-generation pass over a non-empty nft_info:
\* the startup seed sync or the admin seed sync with a seed on the contract
MappingPass ==
  /\ ContractSeed # 0
  /\ DOMAIN nftInfo # {}
  /\ SeedFrame
  /\ StartServer(TRUE) \/ AdminSyncRandomSeed(TRUE)

\* C29: when a mapping-generation pass for seed s and maxSupply N completes
\* over a non-empty nft_info, every row it read has
\* metadataId = ((a * (tokenId - 1) + b) mod N) + 1 for the (a, b) derived
\* from (s, N), the row of s has mappingsGenerated = true, and no row's
\* userAddress, boxTypeId or originId has changed.
C29_PassWritesPermutation ==
  [][MappingPass
       => LET N == getMaxSupply
              p == derivePermutationParams(ContractSeed, N)
          IN /\ DOMAIN nftInfo' = DOMAIN nftInfo
             /\ \A t \in DOMAIN nftInfo :
                  /\ nftInfo'[t].metadataId = ((p.a * (t - 1) + p.b) % N) + 1
                  /\ nftInfo'[t].userAddress = nftInfo[t].userAddress
                  /\ nftInfo'[t].boxTypeId = nftInfo[t].boxTypeId
                  /\ nftInfo'[t].originId = nftInfo[t].originId
             /\ \E row \in randomSeedInfo' :
                  row.randomSeed = ContractSeed /\ row.mappingsGenerated]_vars

\* a pass has run over a revealed token and a token that is not revealed,
\* and has moved one of them away from its token id
C29_Witness ==
  /\ mappingPasses >= 1
  /\ \E t, u \in DOMAIN nftInfo :
       /\ nftInfo[t].originId # 0
       /\ nftInfo[u].originId = 0
       /\ nftInfo[t].metadataId # 0
       /\ nftInfo[u].metadataId # 0
       /\ nftInfo[u].metadataId # u

\* C30: a mapping-generation pass run again with the same seed and maxSupply
\* leaves the metadataId of every row that an earlier pass has written as it
\* is.
C30_RepeatedPassSame ==
  [][(/\ MappingPass
      /\ \E row \in randomSeedInfo :
           row.randomSeed = ContractSeed /\ row.mappingsGenerated)
       => \A t \in DOMAIN nftInfo :
            nftInfo[t].metadataId # 0
              => nftInfo'[t].metadataId = nftInfo[t].metadataId]_vars

\* three passes have run, the later ones over rows already written
C30_Witness ==
  /\ mappingPasses = MaxPasses
  /\ \A t \in Tokens :
       t \in DOMAIN nftInfo /\ nftInfo[t].metadataId \notin {0, t}

\* C31: while the contract reports isRevealed = false or a seed of 0, no
\* step (the periodic, forced, admin-triggered and startup seed checks
\* included) adds or changes a random_seed_info row, counts a mapping pass
\* or changes the metadataId of a row of nft_info; a row created meanwhile
\* by a mint has no metadataId.
C31_NoSeedNoWrite ==
  [][(~revealed \/ seedOnChain = 0)
       => /\ randomSeedInfo' = randomSeedInfo
          /\ mappingPasses' = mappingPasses
          /\ \A t \in DOMAIN nftInfo' :
               nftInfo'[t].metadataId =
                 IF t \in DOMAIN nftInfo THEN nftInfo[t].metadataId ELSE 0]_vars

\* the contract is revealed with a seed of 0, the watcher has made its
\* immediate check and installed its timer over a non-empty nft_info, and
\* nothing was written
C31_Witness ==
  /\ revealed
  /\ seedOnChain = 0
  /\ scheduler.isRunning
  /\ scheduler.intervalId
  /\ DOMAIN nftInfo # {}
  /\ randomSeedInfo = {}
  /\ \A t \in DOMAIN nftInfo : nftInfo[t].metadataId = 0

C33_OneTimerOneSubscription ==
  /\ [](nftMonitor.timers <= 1 /\ nftMonitor.listeners <= 1)
  /\ [][(nftMonitor.isNftSyncRunning /\ BeginStartNftSyncMonitoring)
          => nftMonitor' = nftMonitor]_vars

\* C34: in the contract, once setRandomSeed has succeeded, revealed stays
\* true and randomSeedMetadata keeps its value at every later step, and no
\* call of setRandomSeed, whatever its seed, can succeed any more (it
\* reverts with Revealed).
C34_SeedSetOnce ==
  /\ [][revealed => (revealed' /\ seedOnChain' = seedOnChain)]_vars
  /\ [](revealed => \A seed \in Seeds : ~ENABLED SetRandomSeed(seed))

\* setRandomSeed has succeeded with a seed that is not 0, and the server
\* has since read the seed and generated the mappings from it
C34_Witness ==
  /\ revealed
  /\ seedOnChain # 0
  /\ mappingPasses >= 1
  /\ \E row \in randomSeedInfo : row.randomSeed = seedOnChain

\* C35: in the contract, a soulbound token id is recorded once and never
\* again: a recorded avatar id is never overwritten, no step is a call of
\* mintBySoulboundHolder that succeeds with a recorded soulbound id, whoever
\* calls and whatever the signature; soulboundToAvatar and avatarToSoulbound
\* are inverse to each other on what they record; and the avatar id a call
\* records is the id of the one token that call mints, owned by the caller.
C35_OneMintPerSoulbound ==
  /\ [](/\ \A s \in SoulboundIds :
             soulboundToAvatar[s] # 0
               => /\ soulboundToAvatar[s] \in DOMAIN chainOwner
                  /\ avatarToSoulbound[soulboundToAvatar[s]] = s
          /\ \A a \in Tokens :
               avatarToSoulbound[a] # 0
                 => soulboundToAvatar[avatarToSoulbound[a]] = a)
  /\ [][\A s \in SoulboundIds :
          soulboundToAvatar[s] # 0
            => \A msgSender \in Addrs, signature \in SoulboundSignatures :
                 ~MintBySoulboundHolder(msgSender, s, signature)]_vars
  /\ [][\A s \in SoulboundIds :
          soulboundToAvatar'[s] # soulboundToAvatar[s]
            => /\ soulboundToAvatar[s] = 0
               /\ soulboundToAvatar'[s] \notin DOMAIN chainOwner
               /\ DOMAIN chainOwner' =
                    DOMAIN chainOwner \cup {soulboundToAvatar'[s]}
               /\ \E e \in chainLog' \ chainLog :
                    /\ e.tokenId = soulboundToAvatar'[s]
                    /\ e.from = ZERO_ADDRESS
                    /\ e.to = chainOwner'[soulboundToAvatar'[s]]]_vars

\* a soulbound holder has minted after a public mint, so that the avatar id
\* recorded for the soulbound id is not that id
C35_Witness ==
  /\ soulboundToAvatar[1] = 2
  /\ avatarToSoulbound[2] = 1
  /\ chainOwner[1] # chainOwner[2]

\* C36: the persisted lastProcessedBlock of the transfer_events stream
\* never decreases, whatever the interleaving of pushed events, periodic
\* catch-up runs and syncs asked for over a block range.
C36_CursorNeverDecreases ==
  [][lastProcessedBlock' >= lastProcessedBlock]_vars

\* C37: whenever lastProcessedBlock = B is persisted, every Transfer event
\* the contract emitted in a block below B has been applied to the store
\* by a handler that succeeded (monitoring starts from block 0 here, so no
\* event is from before it); a failed handler's event is not skipped past.
C37_CursorCoversApplied ==
  \A e \in chainLog : e.blockNumber < lastProcessedBlock => e \in handled

\* C38: every signature stored on a phase2_holders row is a signature of
\* the row's (userAddress, id) by one of the server's signer keys, so that
\* the pair (tokenId = id, signature) that GET /api/mint/soulbound/:address
\* returns passes the contract's verify for that address and that signer.
C38_StoredSignatureValid ==
  \A h \in phase2Holders :
    h.signature # NoPhase2Signature
      => \E key \in SignerKeys :
           verify(h.userAddress, h.id, signerAddress(key), h.signature)

\* C39: for the seed watcher and for the NFT sync monitor, whenever no
\* start call is in progress, the running flag is true exactly when the
\* periodic timer is installed: a start that failed has left no flag
\* without a timer, and a watcher stopped during a start has no timer.
C39_FlagIffTimer ==
  /\ scheduler.pc # "setInterval"
       => (scheduler.isRunning <=> scheduler.intervalId)
  /\ nftMonitor.starting = 0
       => (nftMonitor.isNftSyncRunning <=> nftMonitor.timers > 0)

\* C40: whenever the row of the contract's seed has mappingsGenerated =
\* true, every row of nft_info carries the metadataId that the permutation
\* gives its tokenId, the rows created by mint events handled after the
\* mapping-generation pass included.
C40_MarkedMeansAllMapped ==
  (\E row \in randomSeedInfo :
     row.randomSeed = ContractSeed /\ row.mappingsGenerated)
    => \A t \in DOMAIN nftInfo :
         nftInfo[t].metadataId =
           calculateMetadataId(t, ContractSeed, getMaxSupply)

====
